---- MODULE Spec2Model ----
(***************************************************************************)
(* Model of the control API of the media relay (internal/core/api.go):     *)
(* the configuration endpoints, the route table built by newAPI, the       *)
(* background dispatch of parent.apiConfigSet and the reload it triggers.  *)
(***************************************************************************)
EXTENDS Integers, Sequences, FiniteSets, Bags, TLC

(***************************************************************************)
(* Bounds                                                                  *)
(***************************************************************************)
\* HTTP connections served concurrently
NumConns == 1
\* requests accepted over one behaviour
MaxRequests == 2

(***************************************************************************)
(* Values, names, documents                                                *)
(***************************************************************************)
\* field values: the zero value, one other valid value, and a negative one
\* that validation rejects
Values == (0 - 1)..1

\* keys of the paths map
PathNames == {<<"a">>, <<"b">>}

\* values of the *name URL parameter, as sequences of characters
NameParams == {<<"/">>, <<"a">>, <<"/", "a">>, <<"/", "b">>}

Protocols == {"rtsp", "rtsps", "rtmp", "rtmps", "hls", "webrtc"}

\* conf.Conf: its exported fields with their json tags
ConfType ==
    << [Name |-> "LogLevel",    json |-> "logLevel"],
       [Name |-> "ReadTimeout", json |-> "readTimeout"],
       [Name |-> "Paths",       json |-> "paths"] >>

\* conf.PathConf: its exported fields with their json tags
PathConfType ==
    << [Name |-> "Source", json |-> "source"] >>

FieldNames(t) == {t[i].Name : i \in 1..Len(t)}

JsonKeys(t) == {t[i].json : i \in 1..Len(t)} \ {"-"}

FieldOfJson(t, k) == t[CHOOSE i \in 1..Len(t) : t[i].json = k].Name

JsonOfField(t, n) == t[CHOOSE i \in 1..Len(t) : t[i].Name = n].json

\* every value of type conf.PathConf
PathConfs == [FieldNames(PathConfType) -> Values]

\* every value of the Paths field
PathMaps == UNION {[S -> PathConfs] : S \in SUBSET PathNames}

\* every value of type conf.Conf
Confs == [LogLevel : Values, ReadTimeout : Values, Paths : PathMaps]

EmptyDoc == [k \in {} |-> 0]

\* a configuration before any field is set
ZeroConf == [LogLevel |-> 0, ReadTimeout |-> 0, Paths |-> EmptyDoc]

\* the zero value &conf.PathConf{}
ZeroPathConf == [n \in FieldNames(PathConfType) |-> 0]

(***************************************************************************)
(* conf package                                                            *)
(***************************************************************************)
\* Conf.Clone: a deep copy
Clone(c) == c

\* PathConf validation inside Conf.Check
CheckPath(pc) == \A n \in DOMAIN pc : pc[n] >= 0

\* Conf.Check: TRUE when validation returns no error
Check(c) ==
    /\ c.LogLevel >= 0
    /\ c.ReadTimeout >= 0
    /\ \A p \in DOMAIN c.Paths : CheckPath(c.Paths[p])

(***************************************************************************)
(* JSON encoding and decoding                                              *)
(***************************************************************************)
\* json.Marshal of a conf.PathConf
PathToJSON(pc) ==
    [k \in JsonKeys(PathConfType) |-> pc[FieldOfJson(PathConfType, k)]]

\* ctx.JSON(http.StatusOK, c): json.Marshal of a conf.Conf
ToJSON(c) ==
    [k \in JsonKeys(ConfType) |->
        IF k = "paths"
        THEN [p \in DOMAIN c.Paths |-> PathToJSON(c.Paths[p])]
        ELSE c[FieldOfJson(ConfType, k)]]

\* generateStructWithOptionalFields without the test j != "paths"
generateStructKeepPaths(model) ==
    SelectSeq(model, LAMBDA f : f.json # "-")

\* the struct type with one pointer field per settable field of model
generateStructWithOptionalFields(model) ==
    SelectSeq(model, LAMBDA f : f.json # "-" /\ f.json # "paths")

\* json.Decoder.Decode into the optional struct: a pointer is <<v>>, nil is <<>>;
\* keys of the document that match no field are ignored
Decode(optType, doc) ==
    [n \in FieldNames(optType) |->
        IF JsonOfField(optType, n) \in DOMAIN doc
        THEN <<doc[JsonOfField(optType, n)]>>
        ELSE <<>>]

\* request bodies: ok = FALSE is a body the JSON decoder rejects
MalformedBody == [ok |-> FALSE, doc |-> EmptyDoc]

GlobalKeys == JsonKeys(ConfType) \ {"paths"}

\* partial documents over the global settings
PartialConfDocs == UNION {[S -> Values] : S \in SUBSET GlobalKeys}

PartialConfBodies ==
    {[ok |-> TRUE, doc |-> d] : d \in PartialConfDocs} \cup {MalformedBody}

PathDocs == UNION {[S -> Values] : S \in SUBSET JsonKeys(PathConfType)}

PathBodies == {[ok |-> TRUE, doc |-> d] : d \in PathDocs} \cup {MalformedBody}

loadConfData(body) ==
    IF ~body.ok
    THEN [err |-> TRUE, in |-> EmptyDoc]
    ELSE [err |-> FALSE,
          in |-> Decode(generateStructWithOptionalFields(ConfType), body.doc)]

loadConfPathData(body) ==
    IF ~body.ok
    THEN [err |-> TRUE, in |-> EmptyDoc]
    ELSE [err |-> FALSE,
          in |-> Decode(generateStructWithOptionalFields(PathConfType), body.doc)]

\* fillStruct without the IsNil test: a field absent from source is reset to
\* its zero value
fillStructZeroAbsent(dest, source) ==
    [n \in DOMAIN dest |->
        IF n \in DOMAIN source
        THEN IF source[n] # <<>> THEN source[n][1] ELSE 0
        ELSE dest[n]]

\* copies every non-nil field of source into the field of dest with that name
fillStruct(dest, source) ==
    [n \in DOMAIN dest |->
        IF n \in DOMAIN source /\ source[n] # <<>>
        THEN source[n][1]
        ELSE dest[n]]

(***************************************************************************)
(* Route table                                                             *)
(***************************************************************************)
\* an interface value handed to newAPI: kind "invalid" is the nil interface,
\* kind "ptr" with isNil a nil pointer of the server's type
LiveServer == [kind |-> "ptr", isNil |-> FALSE]

NilPointer == [kind |-> "ptr", isNil |-> TRUE]

NilInterface == [kind |-> "invalid", isNil |-> TRUE]

ServerValues == {LiveServer, NilPointer, NilInterface}

\* interfaceIsEmpty without the IsNil test
interfaceIsNotPointer(i) == i.kind # "ptr"

interfaceIsEmpty(i) == i.kind # "ptr" \/ i.isNil

ConfigRoutes ==
    {"GET /v1/config/get", "POST /v1/config/set",
     "POST /v1/config/paths/add/*name", "POST /v1/config/paths/edit/*name",
     "POST /v1/config/paths/remove/*name"}

\* the routes newAPI registers for one protocol server
ProtocolRoutes(p) ==
    CASE p = "hls"    -> {"GET /v1/hlsmuxers/list"}
      [] p = "rtsp"   -> {"GET /v1/rtspconns/list", "GET /v1/rtspsessions/list",
                          "POST /v1/rtspsessions/kick/:id"}
      [] p = "rtsps"  -> {"GET /v1/rtspsconns/list", "GET /v1/rtspssessions/list",
                          "POST /v1/rtspssessions/kick/:id"}
      [] p = "rtmp"   -> {"GET /v1/rtmpconns/list", "POST /v1/rtmpconns/kick/:id"}
      [] p = "rtmps"  -> {"GET /v1/rtmpsconns/list", "POST /v1/rtmpsconns/kick/:id"}
      [] p = "webrtc" -> {"GET /v1/webrtcconns/list", "POST /v1/webrtcconns/kick/:id"}

\* the route table newAPI builds from its server arguments
Routes(srv) ==
    ConfigRoutes \cup {"GET /v1/paths/list"}
        \cup UNION {ProtocolRoutes(p) : p \in {q \in Protocols : ~interfaceIsEmpty(srv[q])}}

AllProtocolRoutes == UNION {ProtocolRoutes(p) : p \in Protocols}

KickRoutes ==
    {"POST /v1/rtspsessions/kick/:id", "POST /v1/rtspssessions/kick/:id",
     "POST /v1/rtmpconns/kick/:id", "POST /v1/rtmpsconns/kick/:id",
     "POST /v1/webrtcconns/kick/:id"}

ListRoutes == (AllProtocolRoutes \ KickRoutes) \cup {"GET /v1/paths/list"}

\* method and URL of the requests clients send
RequestLines ==
    ConfigRoutes \cup ListRoutes \cup KickRoutes
        \cup {"GET /v1/unknown", "POST /v1/config/get"}

\* the server arguments the core passes to newAPI: pointers of the servers'
\* types, nil for a protocol that is disabled, or no server at all
ServerArgs ==
    [Protocols -> {LiveServer, NilPointer}] \cup {[p \in Protocols |-> NilInterface]}

\* every protocol enabled
AllServers == [p \in Protocols |-> LiveServer]

(***************************************************************************)
(* State                                                                   *)
(***************************************************************************)
VARIABLES
    conf,        \* api.conf
    mutex,       \* api.mutex: 0 when free, else the connection whose handler holds it
    servers,     \* the server fields of the api struct
    routes,      \* the routes registered on the router
    listening,   \* the listener accepts requests
    reqs,        \* per connection: the request being answered
    nreq,        \* requests accepted so far
    pending,     \* bag of the configurations handed to goroutines
    committed,   \* history: the configurations of pending, in the order in
                 \* which the handlers assigned them to a.conf
                 \* `go a.parent.apiConfigSet(newConf)` that have not run yet
    parentPc,    \* what the core is doing with a delivered configuration
    parentConf,  \* the configuration last delivered to the core
    added        \* history: the last successful paths/add, with api.conf as it
                 \* found it, while nothing but a paths/remove of the same
                 \* name has replaced api.conf since

\* one RTSP session (rtsp_session.go) and the paths it talks to
VARIABLES
    sess,        \* the rtspSession struct: session is the protocol library's
                 \* state (s.session.State()), state is s.state (safeState),
                 \* path, stream, onReadCmd, protocols are the fields so named
    readers,     \* the paths in whose reader set the session is
    publishers,  \* the paths whose publisher the session is
    streams,     \* the paths whose stream publisherStart has created for the
                 \* session and that no publisherStop or publisherRemove has
                 \* closed
    procs,       \* runOnRead processes started by the session and not stopped
    calls,       \* the removals onClose asked of a path, in order
    lastRes      \* the handler that ran last, the status it answered and
                 \* the branch it took

apiVars == <<conf, mutex, servers, routes, listening, reqs, nreq, pending,
             committed,
             parentPc, parentConf, added>>

sessVars == <<sess, readers, publishers, streams, procs, calls, lastRes>>

\* one WebRTC connection (webrtc_conn.go), its peer connection, its signalling
\* channel and the stream it reads
VARIABLES
    process,     \* the server process: "running", or the panic that ended
                 \* it (no goroutine recovers from one), and with it every
                 \* connection, session and the path manager
    conn,        \* the webRTCConn: where run and runInner are, the deferred
                 \* calls of runInner, c.ctx and innerCtx, the tracks, the
                 \* handshake timer t, the error runInner returns
    sig,         \* what has passed over c.wsconn and into the peer connection
    peer,        \* the peer connection: its state, and whether the channels
                 \* pcConnected, pcDisconnected, pcClosed are closed
    cand,        \* the goroutine that reads the client's candidates
    ring,        \* ringBuffer: its slots, indexes and closed flag
    consumer,    \* the goroutine that pulls from ringBuffer
    units,       \* history: the units pushed, the units whose track callback
                 \* was invoked, whether the ring was ever full
    log          \* history: the calls on the path, the stream and the parent

connVars == <<process, conn, sig, peer, cand, ring, consumer, units, log>>

\* the conf.Conf objects the API points to (api.go): a pointer is the index
\* of its object in heap
VARIABLES
    heap,        \* the conf.Conf objects allocated so far, by address; the
                 \* Paths field maps a name to the address of a conf.PathConf
    pheap,       \* the conf.PathConf objects, by address
    confPtr,     \* a.conf
    confMutex,   \* a.mutex: "free", or "held" by the mutating handler
    handler,     \* the mutating handler that holds the mutex: its request and
                 \* newConf
    gets,        \* per connection, the onConfigGet in progress: c, and the
                 \* document it wrote
    published,   \* history: the objects a.conf has pointed to
    handed       \* the pointers given to `go a.parent.apiConfigSet`

objVars == <<heap, pheap, confPtr, confMutex, handler, gets, published, handed>>

mediaVars == <<sessVars, connVars, objVars>>

\* newRTSPSession: the fields it does not set hold Go's zero values; closed
\* tells that the library has called onClose; callbacks is the stream the
\* functions given to OnPacketRTP write to, receiving tells that the library
\* hands incoming packets to them
newRTSPSession(protocols) ==
    [protocols |-> protocols, session |-> "initial", state |-> "initial",
     path |-> <<>>, stream |-> <<>>, onReadCmd |-> "nil", closed |-> FALSE,
     callbacks |-> <<>>, receiving |-> FALSE]

\* cause is the branch by which the handler answered, asked whether it called
\* the path manager, runOnRead whether pathConf.RunOnRead was set
NoRes ==
    [method |-> "", status |-> 0, cause |-> "", asked |-> FALSE,
     runOnRead |-> FALSE]

\* the ring buffer holds 2^ReadBufferLog items (ringbuffer.New accepts a
\* power of two only); MaxUnits is the number of units the publisher writes
ReadBufferLog == 1

MaxUnits == 3

\* c.readBufferCount
ReadBufferCount == 2 ^ ReadBufferLog

\* ringbuffer.New: no slot holds an item; Push writes slot
\* (writeIndex + 1) % size, Pull reads slot readIndex % size
NoItem == <<>>

NewRing ==
    [slots |-> [n \in 0..(ReadBufferCount - 1) |-> NoItem],
     writeIndex |-> 0, readIndex |-> 1 % ReadBufferCount, closed |-> FALSE]

\* newWebRTCConn: run is started, runInner is about to call readerAdd
newWebRTCConn ==
    [run |-> "select", inner |-> "readerAdd", defers |-> <<>>,
     ctxDone |-> FALSE, innerCancelled |-> FALSE, video |-> "none",
     audio |-> FALSE, timer |-> "none", registered |-> FALSE, err |-> ""]

NoSignal ==
    [iceServers |-> FALSE, offer |-> FALSE, answer |-> FALSE,
     localCandidate |-> FALSE, remoteCandidate |-> FALSE]

NoPeer ==
    [state |-> "none", closeCalled |-> FALSE, pcConnected |-> FALSE,
     pcDisconnected |-> FALSE, pcClosed |-> FALSE]

NoConsumer == [at |-> "none", unit |-> <<>>]

NoUnits == [pushed |-> <<>>, invoked |-> <<>>, everFull |-> FALSE]

ConnInit ==
    /\ process = "running"
    /\ conn = newWebRTCConn
    /\ sig = NoSignal
    /\ peer = NoPeer
    /\ cand = "none"
    /\ ring = NewRing
    /\ consumer = NoConsumer
    /\ units = NoUnits
    /\ log = <<>>

SessionIdle ==
    /\ sess = newRTSPSession({"udp", "multicast", "tcp"})
    /\ readers = {}
    /\ publishers = {}
    /\ streams = {}
    /\ procs = 0
    /\ calls = <<>>
    /\ lastRes = NoRes

Conns == 1..NumConns

\* no request works on the configuration objects
NoHandler ==
    [pc |-> "idle", ep |-> "", name |-> <<>>, in |-> EmptyDoc, newConf |-> 0]

ObjIdle ==
    /\ heap = <<ZeroConf>>
    /\ pheap = EmptyDoc
    /\ confPtr = 1
    /\ confMutex = "free"
    /\ handler = NoHandler
    /\ gets = [r \in Conns |->
                [pc |-> "idle", c |-> 0, seen |-> ZeroConf, resp |-> EmptyDoc]]
    /\ published = {1}
    /\ handed = {}

\* no session, no WebRTC connection: the control API alone
MediaIdle ==
    /\ SessionIdle
    /\ ConnInit
    /\ ObjIdle

vars == <<apiVars, mediaVars>>

IdleReq ==
    [pc |-> "idle", ep |-> "", name |-> <<>>, body |-> MalformedBody,
     status |-> 0, check |-> "none", resp |-> EmptyDoc, err |-> FALSE]

\* no paths/add to undo
NoAdd == [name |-> <<>>, before |-> ZeroConf, removed |-> FALSE]

ValidConfs == {c \in Confs : Check(c)}

Init ==
    /\ conf \in ValidConfs
    /\ mutex = 0
    /\ servers = AllServers
    /\ routes = Routes(servers)
    /\ listening = TRUE
    /\ reqs = [r \in Conns |-> IdleReq]
    /\ nreq = 0
    /\ pending = EmptyBag
    /\ committed = <<>>
    /\ parentPc = "idle"
    /\ parentConf = conf
    /\ added = NoAdd
    /\ MediaIdle

\* the bodies posted to /v1/config/set: partial documents, and the documents
\* a client holds from /v1/config/get, either the one it returns now or the one
\* it returned for the configuration the core applied last
ConfBodies(cur, old) ==
    PartialConfBodies \cup {[ok |-> TRUE, doc |-> ToJSON(c)] : c \in {cur, old}}

(***************************************************************************)
(* Router                                                                  *)
(***************************************************************************)
\* connection r is free and the listener accepts one more request
Accept(r) ==
    /\ reqs[r].pc = "idle"
    /\ listening
    /\ nreq < MaxRequests
    /\ nreq' = nreq + 1

\* the router dispatches the request line to the handler registered for it
Routed(r, line) ==
    /\ Accept(r)
    /\ line \in routes

\* router.NoRoute: no handler is registered for the request line
NoRoute(r) ==
    /\ Accept(r)
    /\ \E line \in RequestLines \ routes :
        reqs' = [reqs EXCEPT ![r] =
                    [IdleReq EXCEPT !.pc = "responded", !.ep = line, !.status = 404]]
    /\ UNCHANGED <<conf, mutex, servers, routes, listening, pending, committed,
                   parentPc, parentConf, added>>
    /\ UNCHANGED mediaVars

\* Return of a handler that calls parent.apiConfigSet itself, without `go`: it
\* returns once the core has applied the configuration
ReturnAfterReload(r) ==
    /\ reqs[r].pc = "responded"
    /\ (mutex = r /\ reqs[r].status = 200)
            => (pending = EmptyBag /\ parentPc = "idle")
    /\ reqs' = [reqs EXCEPT ![r] = IdleReq]
    /\ mutex' = IF mutex = r THEN 0 ELSE mutex
    /\ UNCHANGED <<conf, servers, routes, listening, nreq, pending, committed,
                   parentPc, parentConf, added>>
    /\ UNCHANGED mediaVars

\* the handler of connection r returns: deferred unlock, response complete
Return(r) ==
    /\ reqs[r].pc = "responded"
    /\ reqs' = [reqs EXCEPT ![r] = IdleReq]
    /\ mutex' = IF mutex = r THEN 0 ELSE mutex
    /\ UNCHANGED <<conf, servers, routes, listening, nreq, pending, committed,
                   parentPc, parentConf, added>>
    /\ UNCHANGED mediaVars

(***************************************************************************)
(* Handlers                                                                *)
(***************************************************************************)
\* the record of a connection once the handler of request line ep has run;
\* check is the outcome of newConf.Check() when the handler got that far
Answered(ep, param, body, status, check) ==
    [IdleReq EXCEPT !.pc = "responded", !.ep = ep, !.name = param,
                    !.body = body, !.status = status, !.check = check]

\* ctx.AbortWithStatus(http.StatusBadRequest) before the mutex is taken
Abort(r, ep, param, body) ==
    /\ reqs' = [reqs EXCEPT ![r] = Answered(ep, param, body, 400, "none")]
    /\ UNCHANGED <<conf, mutex, pending, committed, added>>

\* ctx.AbortWithStatus(http.StatusBadRequest) with the mutex held
Reject(r, ep, param, body, check) ==
    /\ mutex = 0
    /\ mutex' = r
    /\ reqs' = [reqs EXCEPT ![r] = Answered(ep, param, body, 400, check)]
    /\ UNCHANGED <<conf, pending, committed, added>>

\* the history of the last paths/add once the handler of ep has committed
\* a configuration for the map key name
AddedAfter(ep, name) ==
    IF ep = "POST /v1/config/paths/add/*name"
    THEN [name |-> name, before |-> conf, removed |-> FALSE]
    ELSE IF /\ ep = "POST /v1/config/paths/remove/*name"
            /\ added # NoAdd
            /\ ~added.removed
            /\ added.name = name
         THEN [added EXCEPT !.removed = TRUE]
         ELSE NoAdd

\* Commit handing the goroutine a.conf as it was before the assignment
CommitStale(r, ep, param, name, body, newConf) ==
    /\ mutex = 0
    /\ mutex' = r
    /\ conf' = newConf
    /\ pending' = pending (+) SetToBag({conf})
    /\ committed' = Append(committed, conf)
    /\ reqs' = [reqs EXCEPT ![r] = Answered(ep, param, body, 200, "ok")]
    /\ added' = AddedAfter(ep, name)

\* a.conf = newConf; go a.parent.apiConfigSet(newConf); ctx.Status(http.StatusOK)
Commit(r, ep, param, name, body, newConf) ==
    /\ mutex = 0
    /\ mutex' = r
    /\ conf' = newConf
    /\ pending' = pending (+) SetToBag({newConf})
    /\ committed' = Append(committed, newConf)
    /\ reqs' = [reqs EXCEPT ![r] = Answered(ep, param, body, 200, "ok")]
    /\ added' = AddedAfter(ep, name)

\* m with key k set to v
MapPut(m, k, v) == [x \in DOMAIN m \cup {k} |-> IF x = k THEN v ELSE m[x]]

\* a delete that clears the map
MapDeleteAll(m, k) == [x \in {} |-> m[x]]

\* delete(m, k)
MapDelete(m, k) == [x \in DOMAIN m \ {k} |-> m[x]]

onConfigGet(r) ==
    /\ Routed(r, "GET /v1/config/get")
    /\ mutex = 0
    /\ reqs' = [reqs EXCEPT ![r] =
                    [IdleReq EXCEPT !.pc = "responded", !.ep = "GET /v1/config/get",
                                    !.status = 200, !.resp = ToJSON(conf)]]
    /\ UNCHANGED <<conf, mutex, servers, routes, listening, pending, committed,
                   parentPc, parentConf, added>>
    /\ UNCHANGED mediaVars

\* onConfigSet assigning a.conf before the validation
onConfigSetCommitFirst(r) ==
    /\ Routed(r, "POST /v1/config/set")
    /\ \E body \in ConfBodies(conf, parentConf) :
        LET ep == "POST /v1/config/set"
            ld == loadConfData(body)
        IN
        IF ld.err
        THEN Abort(r, ep, <<>>, body)
        ELSE LET newConf == fillStruct(Clone(conf), ld.in) IN
             IF ~Check(newConf)
             THEN /\ mutex = 0
                  /\ mutex' = r
                  /\ conf' = newConf
                  /\ reqs' = [reqs EXCEPT ![r] = Answered(ep, <<>>, body, 400, "err")]
                  /\ UNCHANGED <<pending, committed, added>>
             ELSE Commit(r, ep, <<>>, <<>>, body, newConf)
    /\ UNCHANGED <<servers, routes, listening, parentPc, parentConf>>
    /\ UNCHANGED mediaVars

onConfigSet(r) ==
    /\ Routed(r, "POST /v1/config/set")
    /\ \E body \in ConfBodies(conf, parentConf) :
        LET ep == "POST /v1/config/set"
            ld == loadConfData(body)
        IN
        IF ld.err
        THEN Abort(r, ep, <<>>, body)
        ELSE LET newConf == fillStruct(Clone(conf), ld.in) IN
             IF ~Check(newConf)
             THEN Reject(r, ep, <<>>, body, "err")
             ELSE Commit(r, ep, <<>>, <<>>, body, newConf)
    /\ UNCHANGED <<servers, routes, listening, parentPc, parentConf>>
    /\ UNCHANGED mediaVars

\* onConfigPathsAdd without the test for an existing entry
onConfigPathsAddOverwrite(r) ==
    /\ Routed(r, "POST /v1/config/paths/add/*name")
    /\ \E param \in NameParams, body \in PathBodies :
        LET ep == "POST /v1/config/paths/add/*name" IN
        IF Len(param) < 2 \/ param[1] # "/"
        THEN Abort(r, ep, param, MalformedBody)
        ELSE LET name == Tail(param)
                 ld == loadConfPathData(body)
             IN
             IF ld.err
             THEN Abort(r, ep, param, body)
             ELSE LET newConf == Clone(conf)
                      newConfPath == fillStruct(ZeroPathConf, ld.in)
                      newPaths == [newConf EXCEPT
                                        !.Paths = MapPut(@, name, newConfPath)]
                  IN
                  IF ~Check(newPaths)
                  THEN Reject(r, ep, param, body, "err")
                  ELSE Commit(r, ep, param, name, body, newPaths)
    /\ UNCHANGED <<servers, routes, listening, parentPc, parentConf>>
    /\ UNCHANGED mediaVars

\* onConfigPathsAdd without name = name[1:]
onConfigPathsAddRawName(r) ==
    /\ Routed(r, "POST /v1/config/paths/add/*name")
    /\ \E param \in NameParams, body \in PathBodies :
        LET ep == "POST /v1/config/paths/add/*name" IN
        IF Len(param) < 2 \/ param[1] # "/"
        THEN Abort(r, ep, param, MalformedBody)
        ELSE LET name == param
                 ld == loadConfPathData(body)
             IN
             IF ld.err
             THEN Abort(r, ep, param, body)
             ELSE LET newConf == Clone(conf) IN
                  IF name \in DOMAIN newConf.Paths
                  THEN Reject(r, ep, param, body, "none")
                  ELSE LET newConfPath == fillStruct(ZeroPathConf, ld.in)
                           newPaths == [newConf EXCEPT
                                        !.Paths = MapPut(@, name, newConfPath)]
                       IN
                       IF ~Check(newPaths)
                       THEN Reject(r, ep, param, body, "err")
                       ELSE Commit(r, ep, param, name, body, newPaths)
    /\ UNCHANGED <<servers, routes, listening, parentPc, parentConf>>
    /\ UNCHANGED mediaVars

onConfigPathsAdd(r) ==
    /\ Routed(r, "POST /v1/config/paths/add/*name")
    /\ \E param \in NameParams, body \in PathBodies :
        LET ep == "POST /v1/config/paths/add/*name" IN
        IF Len(param) < 2 \/ param[1] # "/"
        THEN Abort(r, ep, param, MalformedBody)
        ELSE LET name == Tail(param)
                 ld == loadConfPathData(body)
             IN
             IF ld.err
             THEN Abort(r, ep, param, body)
             ELSE LET newConf == Clone(conf) IN
                  IF name \in DOMAIN newConf.Paths
                  THEN Reject(r, ep, param, body, "none")
                  ELSE LET newConfPath == fillStruct(ZeroPathConf, ld.in)
                           newPaths == [newConf EXCEPT
                                        !.Paths = MapPut(@, name, newConfPath)]
                       IN
                       IF ~Check(newPaths)
                       THEN Reject(r, ep, param, body, "err")
                       ELSE Commit(r, ep, param, name, body, newPaths)
    /\ UNCHANGED <<servers, routes, listening, parentPc, parentConf>>
    /\ UNCHANGED mediaVars

onConfigPathsEdit(r) ==
    /\ Routed(r, "POST /v1/config/paths/edit/*name")
    /\ \E param \in NameParams, body \in PathBodies :
        LET ep == "POST /v1/config/paths/edit/*name" IN
        IF Len(param) < 2 \/ param[1] # "/"
        THEN Abort(r, ep, param, MalformedBody)
        ELSE LET name == Tail(param)
                 ld == loadConfPathData(body)
             IN
             IF ld.err
             THEN Abort(r, ep, param, body)
             ELSE LET newConf == Clone(conf) IN
                  IF name \notin DOMAIN newConf.Paths
                  THEN Reject(r, ep, param, body, "none")
                  ELSE LET newConfPath == fillStruct(newConf.Paths[name], ld.in)
                           edited == [newConf EXCEPT
                                        !.Paths = MapPut(@, name, newConfPath)]
                       IN
                       IF ~Check(edited)
                       THEN Reject(r, ep, param, body, "err")
                       ELSE Commit(r, ep, param, name, body, edited)
    /\ UNCHANGED <<servers, routes, listening, parentPc, parentConf>>
    /\ UNCHANGED mediaVars

\* onConfigPathsDelete answering 200 for a missing entry as well
onConfigPathsDeleteIdempotent(r) ==
    /\ Routed(r, "POST /v1/config/paths/remove/*name")
    /\ \E param \in NameParams :
        LET ep == "POST /v1/config/paths/remove/*name" IN
        IF Len(param) < 2 \/ param[1] # "/"
        THEN Abort(r, ep, param, MalformedBody)
        ELSE LET name == Tail(param)
                 newConf == Clone(conf)
                 removed == [newConf EXCEPT !.Paths = MapDelete(@, name)]
             IN
             IF ~Check(removed)
             THEN Reject(r, ep, param, MalformedBody, "err")
             ELSE Commit(r, ep, param, name, MalformedBody, removed)
    /\ UNCHANGED <<servers, routes, listening, parentPc, parentConf>>
    /\ UNCHANGED mediaVars

onConfigPathsDelete(r) ==
    /\ Routed(r, "POST /v1/config/paths/remove/*name")
    /\ \E param \in NameParams :
        LET ep == "POST /v1/config/paths/remove/*name" IN
        IF Len(param) < 2 \/ param[1] # "/"
        THEN Abort(r, ep, param, MalformedBody)
        ELSE LET name == Tail(param)
                 newConf == Clone(conf)
             IN
             IF name \notin DOMAIN newConf.Paths
             THEN Reject(r, ep, param, MalformedBody, "none")
             ELSE LET removed == [newConf EXCEPT !.Paths = MapDelete(@, name)] IN
                  IF ~Check(removed)
                  THEN Reject(r, ep, param, MalformedBody, "err")
                  ELSE Commit(r, ep, param, name, MalformedBody, removed)
    /\ UNCHANGED <<servers, routes, listening, parentPc, parentConf>>
    /\ UNCHANGED mediaVars

\* onPathsList, onRTSPConnsList, ..., onWebRTCConnsList: the server's answer
\* res.err is an input
onList(r) ==
    /\ \E line \in ListRoutes, err \in BOOLEAN :
        /\ Routed(r, line)
        /\ reqs' = [reqs EXCEPT ![r] =
                    [IdleReq EXCEPT !.pc = "responded", !.ep = line, !.err = err,
                                    !.status = IF err THEN 500 ELSE 200]]
    /\ UNCHANGED <<conf, mutex, servers, routes, listening, pending, committed,
                   parentPc, parentConf, added>>
    /\ UNCHANGED mediaVars

\* onRTSPSessionsKick, ..., onWebRTCConnsKick: when res.err is set the handler
\* returns without writing a status, which leaves the default status 200
onKick(r) ==
    /\ \E line \in KickRoutes, err \in BOOLEAN :
        /\ Routed(r, line)
        /\ reqs' = [reqs EXCEPT ![r] =
                    [IdleReq EXCEPT !.pc = "responded", !.ep = line, !.err = err,
                                    !.status = 200]]
    /\ UNCHANGED <<conf, mutex, servers, routes, listening, pending, committed,
                   parentPc, parentConf, added>>
    /\ UNCHANGED mediaVars

(***************************************************************************)
(* The core applying a configuration                                       *)
(***************************************************************************)
\* seq without its first c
Delivered(seq, c) ==
    LET n == CHOOSE n \in 1..Len(seq) :
                 seq[n] = c /\ \A m \in 1..(n - 1) : seq[m] # c
    IN SubSeq(seq, 1, n - 1) \o SubSeq(seq, n + 1, Len(seq))

\* a goroutine started by a handler runs parent.apiConfigSet(c): the core
\* takes the configuration and either keeps the API or restarts it
apiConfigSet(c) ==
    /\ BagIn(c, pending)
    /\ parentPc = "idle"
    /\ pending' = pending (-) SetToBag({c})
    /\ committed' = Delivered(committed, c)
    /\ parentConf' = c
    /\ parentPc' \in {"reload", "close"}
    /\ UNCHANGED <<conf, mutex, servers, routes, listening, reqs, nreq, added>>
    /\ UNCHANGED mediaVars

\* api.confReload(conf), called by the core
confReload ==
    /\ parentPc = "reload"
    /\ mutex = 0
    /\ conf' = parentConf
    /\ added' = NoAdd
    /\ parentPc' = "idle"
    /\ UNCHANGED <<mutex, servers, routes, listening, reqs, nreq, pending, committed,
                   parentConf>>
    /\ UNCHANGED mediaVars

\* api.close(): Shutdown closes the listener, then waits for the handlers
close ==
    /\ parentPc = "close"
    /\ listening' = FALSE
    /\ parentPc' = "shutdown"
    /\ UNCHANGED <<conf, mutex, servers, routes, reqs, nreq, pending, committed, parentConf,
                   added>>
    /\ UNCHANGED mediaVars

\* Shutdown has returned (no request is being handled) and the core creates
\* the API again with the configuration it applied
newAPI ==
    /\ parentPc = "shutdown"
    /\ \A r \in Conns : reqs[r].pc = "idle"
    /\ conf' = parentConf
    /\ added' = NoAdd
    /\ mutex' = 0
    /\ servers' = servers
    /\ routes' = Routes(servers')
    /\ listening' = TRUE
    /\ parentPc' = "idle"
    /\ UNCHANGED <<reqs, nreq, pending, committed, parentConf>>
    /\ UNCHANGED mediaVars

Next ==
    \/ \E r \in Conns : NoRoute(r)
    \/ \E r \in Conns : onConfigGet(r)
    \/ \E r \in Conns : onConfigSet(r)
    \/ \E r \in Conns : onConfigPathsAdd(r)
    \/ \E r \in Conns : onConfigPathsEdit(r)
    \/ \E r \in Conns : onConfigPathsDelete(r)
    \/ \E r \in Conns : onList(r)
    \/ \E r \in Conns : onKick(r)
    \/ \E r \in Conns : Return(r)
    \/ \E c \in BagToSet(pending) : apiConfigSet(c)
    \/ confReload
    \/ close
    \/ newAPI

Spec == Init /\ [][Next]_vars

(***************************************************************************)
(* The router and the server endpoints alone, for every combination of     *)
(* servers; these handlers touch none of the configuration state.          *)
(***************************************************************************)
InitRoutes ==
    /\ conf = ZeroConf
    /\ mutex = 0
    /\ servers \in ServerArgs
    /\ routes = Routes(servers)
    /\ listening = TRUE
    /\ reqs = [r \in Conns |-> IdleReq]
    /\ nreq = 0
    /\ pending = EmptyBag
    /\ committed = <<>>
    /\ parentPc = "idle"
    /\ parentConf = conf
    /\ added = NoAdd
    /\ MediaIdle

NextRoutes ==
    \/ \E r \in Conns : NoRoute(r)
    \/ \E r \in Conns : onList(r)
    \/ \E r \in Conns : onKick(r)
    \/ \E r \in Conns : Return(r)

SpecRoutes == InitRoutes /\ [][NextRoutes]_vars

TypeOK ==
    /\ conf \in Confs
    /\ mutex \in 0..NumConns
    /\ nreq \in 0..MaxRequests

(***************************************************************************)
(* One RTSP session: the handlers the RTSP server calls on it.  A handler  *)
(* and the protocol library's reaction to its answer are one step.         *)
(***************************************************************************)
SessionStates == {"initial", "prePlay", "play", "preRecord", "record"}

ReaderStates == {"prePlay", "play"}

PublisherStates == {"preRecord", "record"}

\* ctx.Path of ANNOUNCE and SETUP, as sequences of characters
PathParams == NameParams \cup {<<>>}

\* the states of s.session in which the library hands a request to its handler
Dispatched(method) ==
    CASE method = "ANNOUNCE" -> {"initial"}
      [] method = "SETUP" -> {"initial", "prePlay", "preRecord"}
      [] method = "PLAY" -> {"prePlay", "play"}
      [] method = "RECORD" -> {"preRecord"}
      [] method = "PAUSE" -> SessionStates \ {"initial"}

\* s.session.State() once the library has the handler's answer
StateAfter(method, st, status) ==
    IF status # 200 THEN st
    ELSE CASE method = "ANNOUNCE" -> "preRecord"
           [] method = "SETUP" -> IF st = "initial" THEN "prePlay" ELSE st
           [] method = "PLAY" -> "play"
           [] method = "RECORD" -> "record"
           [] method = "PAUSE" -> IF st = "play" THEN "prePlay"
                                  ELSE IF st = "record" THEN "preRecord"
                                  ELSE st

\* path.readerRemove, path.publisherRemove and path.publisherStop of the path
\* s.path points to
Removed(set, ptr) == {name \in set : <<name>> # ptr}

\* what a handler reports besides its status
Result(cause, asked) == [cause |-> cause, asked |-> asked, runOnRead |-> FALSE]

\* the handler leaves the session as s2 and answers status
Respond(method, status, s2, res) ==
    /\ sess' = [s2 EXCEPT !.session = StateAfter(method, sess.session, status)]
    /\ lastRes' = [method |-> method, status |-> status, cause |-> res.cause,
                   asked |-> res.asked, runOnRead |-> res.runOnRead]

\* pathManager.publisherAdd and pathManager.readerAdd: res.err, by type;
\* only a name the path manager knows is admitted
AddErrors == {"pathErrAuth", "pathErrNoOnePublishing", "other"}

AddResults(name) ==
    IF name \in PathNames THEN {"nil"} \cup AddErrors ELSE AddErrors

\* the status of c.handleAuthError's response
StatusUnauthorized == 401

\* onAnnounce's switch on the type of res.err
AnnounceStatus(err) == IF err = "pathErrAuth" THEN StatusUnauthorized ELSE 400

\* a switch on res.err that answers every error alike
SetupStatusBadRequest(err) == 400

\* onSetup's switch on the type of res.err
SetupStatus(err) ==
    CASE err = "pathErrAuth" -> StatusUnauthorized
      [] err = "pathErrNoOnePublishing" -> 404
      [] OTHER -> 400

\* externalcmd.Cmd.Close on the command s.onReadCmd points to
CmdClose(cmd) == IF cmd = "running" THEN "closed" ELSE cmd

Stopped(cmd) == IF cmd = "running" THEN 1 ELSE 0

\* the library has the answer of OnPause and has not yet stopped the medias
\* of the session; it takes no other request and does not close the session
\* before it has
Stopping == sess.receiving /\ sess.session # "record"

\* onAnnounce that sets s.path before it looks at res.err
onAnnouncePathFirst ==
    /\ ~sess.closed
    /\ ~Stopping
    /\ sess.session \in Dispatched("ANNOUNCE")
    /\ \E param \in PathParams :
        IF Len(param) = 0 \/ param[1] # "/"
        THEN /\ Respond("ANNOUNCE", 400, sess, Result("invalid path", FALSE))
             /\ UNCHANGED publishers
        ELSE LET name == Tail(param) IN
             \E err \in AddResults(name) :
                IF err # "nil"
                THEN /\ Respond("ANNOUNCE", AnnounceStatus(err),
                                [sess EXCEPT !.path = <<name>>],
                                Result(err, TRUE))
                     /\ UNCHANGED publishers
                ELSE /\ publishers' = publishers \cup {name}
                     /\ Respond("ANNOUNCE", 200,
                                [sess EXCEPT !.path = <<name>>,
                                             !.state = "preRecord"],
                                Result("nil", TRUE))
    /\ UNCHANGED <<readers, streams, procs, calls>>
    /\ UNCHANGED apiVars
    /\ UNCHANGED <<connVars, objVars>>

onAnnounce ==
    /\ ~sess.closed
    /\ ~Stopping
    /\ sess.session \in Dispatched("ANNOUNCE")
    /\ \E param \in PathParams :
        IF Len(param) = 0 \/ param[1] # "/"
        THEN /\ Respond("ANNOUNCE", 400, sess, Result("invalid path", FALSE))
             /\ UNCHANGED publishers
        ELSE LET name == Tail(param) IN
             \E err \in AddResults(name) :
                IF err # "nil"
                THEN /\ Respond("ANNOUNCE", AnnounceStatus(err), sess,
                                Result(err, TRUE))
                     /\ UNCHANGED publishers
                ELSE /\ publishers' = publishers \cup {name}
                     /\ Respond("ANNOUNCE", 200,
                                [sess EXCEPT !.path = <<name>>,
                                             !.state = "preRecord"],
                                Result("nil", TRUE))
    /\ UNCHANGED <<readers, streams, procs, calls>>
    /\ UNCHANGED apiVars
    /\ UNCHANGED <<connVars, objVars>>

\* onSetup without the switch on s.session.State(): every SETUP is a
\* reader's
onSetupAlwaysPlay ==
    /\ ~sess.closed
    /\ ~Stopping
    /\ sess.session \in Dispatched("SETUP")
    /\ \E param \in PathParams, transport \in {"udp", "multicast", "tcp"} :
        IF Len(param) = 0 \/ param[1] # "/"
        THEN /\ Respond("SETUP", 400, sess, Result("invalid path", FALSE))
             /\ UNCHANGED readers
        ELSE IF transport = "tcp" /\ "tcp" \notin sess.protocols
        THEN /\ Respond("SETUP", 461, sess, Result("transport", FALSE))
             /\ UNCHANGED readers
        ELSE LET name == Tail(param) IN
             \E err \in AddResults(name) :
                IF err # "nil"
                THEN /\ Respond("SETUP", SetupStatus(err), sess,
                                Result(err, TRUE))
                     /\ UNCHANGED readers
                ELSE /\ readers' = readers \cup {name}
                     /\ Respond("SETUP", 200,
                                [sess EXCEPT !.path = <<name>>,
                                             !.stream = <<name>>,
                                             !.state = "prePlay"],
                                Result("nil", TRUE))
    /\ UNCHANGED <<publishers, streams, procs, calls>>
    /\ UNCHANGED apiVars
    /\ UNCHANGED <<connVars, objVars>>

\* in the record branch the handler answers 200 and calls nothing
onSetup ==
    /\ ~sess.closed
    /\ ~Stopping
    /\ sess.session \in Dispatched("SETUP")
    /\ \E param \in PathParams, transport \in {"udp", "multicast", "tcp"} :
        IF Len(param) = 0 \/ param[1] # "/"
        THEN /\ Respond("SETUP", 400, sess, Result("invalid path", FALSE))
             /\ UNCHANGED readers
        ELSE IF transport = "tcp" /\ "tcp" \notin sess.protocols
        THEN /\ Respond("SETUP", 461, sess, Result("transport", FALSE))
             /\ UNCHANGED readers
        ELSE IF sess.session \in {"initial", "prePlay"}
        THEN LET name == Tail(param) IN
             \E err \in AddResults(name) :
                IF err # "nil"
                THEN /\ Respond("SETUP", SetupStatus(err), sess,
                                Result(err, TRUE))
                     /\ UNCHANGED readers
                ELSE /\ readers' = readers \cup {name}
                     /\ Respond("SETUP", 200,
                                [sess EXCEPT !.path = <<name>>,
                                             !.stream = <<name>>,
                                             !.state = "prePlay"],
                                Result("nil", TRUE))
        ELSE /\ Respond("SETUP", 200, sess, Result("nil", FALSE))
             /\ UNCHANGED readers
    /\ UNCHANGED <<publishers, streams, procs, calls>>
    /\ UNCHANGED apiVars
    /\ UNCHANGED <<connVars, objVars>>

\* onPlay without the test of s.session.State()
onPlayAnyState ==
    /\ ~sess.closed
    /\ ~Stopping
    /\ sess.session \in Dispatched("PLAY")
    /\ \E runOnRead \in BOOLEAN :
        IF runOnRead
        THEN /\ procs' = procs + 1
             /\ Respond("PLAY", 200, [sess EXCEPT !.onReadCmd = "running",
                                                  !.state = "play"],
                        [Result("nil", FALSE) EXCEPT !.runOnRead = TRUE])
        ELSE /\ Respond("PLAY", 200, [sess EXCEPT !.state = "play"],
                        Result("nil", FALSE))
             /\ UNCHANGED procs
    /\ UNCHANGED <<readers, publishers, streams, calls>>
    /\ UNCHANGED apiVars
    /\ UNCHANGED <<connVars, objVars>>

\* runOnRead tells whether pathConf.RunOnRead is set when PLAY arrives
onPlay ==
    /\ ~sess.closed
    /\ ~Stopping
    /\ sess.session \in Dispatched("PLAY")
    /\ IF sess.session = "prePlay"
       THEN \E runOnRead \in BOOLEAN :
            IF runOnRead
            THEN /\ procs' = procs + 1
                 /\ Respond("PLAY", 200, [sess EXCEPT !.onReadCmd = "running",
                                                      !.state = "play"],
                            [Result("nil", FALSE) EXCEPT !.runOnRead = TRUE])
            ELSE /\ Respond("PLAY", 200, [sess EXCEPT !.state = "play"],
                            Result("nil", FALSE))
                 /\ UNCHANGED procs
       ELSE /\ Respond("PLAY", 200, sess, Result("nil", FALSE))
            /\ UNCHANGED procs
    /\ UNCHANGED <<readers, publishers, streams, calls>>
    /\ UNCHANGED apiVars
    /\ UNCHANGED <<connVars, objVars>>

\* onRecord that leaves s.stream as it is
onRecordNoStream ==
    /\ ~sess.closed
    /\ ~Stopping
    /\ sess.session \in Dispatched("RECORD")
    /\ \E err \in BOOLEAN :
        IF err
        THEN /\ Respond("RECORD", 400, sess, Result("publisherStart", TRUE))
             /\ UNCHANGED streams
        ELSE /\ streams' = streams \cup {sess.path[1]}
             /\ Respond("RECORD", 200,
                        [sess EXCEPT !.callbacks = sess.path,
                                     !.receiving = TRUE, !.state = "record"],
                        Result("nil", TRUE))
    /\ UNCHANGED <<readers, publishers, procs, calls>>
    /\ UNCHANGED apiVars
    /\ UNCHANGED <<connVars, objVars>>

\* err is res.err of s.path.publisherStart; the functions given to
\* OnPacketRTP write to res.stream, and the library hands them the packets
\* that come once it has the answer 200
onRecord ==
    /\ ~sess.closed
    /\ ~Stopping
    /\ sess.session \in Dispatched("RECORD")
    /\ \E err \in BOOLEAN :
        IF err
        THEN /\ Respond("RECORD", 400, sess, Result("publisherStart", TRUE))
             /\ UNCHANGED streams
        ELSE /\ streams' = streams \cup {sess.path[1]}
             /\ Respond("RECORD", 200,
                        [sess EXCEPT !.stream = sess.path,
                                     !.callbacks = sess.path,
                                     !.receiving = TRUE, !.state = "record"],
                        Result("nil", TRUE))
    /\ UNCHANGED <<readers, publishers, procs, calls>>
    /\ UNCHANGED apiVars
    /\ UNCHANGED <<connVars, objVars>>

\* onPause that forgets the runOnRead command
onPauseKeepCmd ==
    /\ ~sess.closed
    /\ ~Stopping
    /\ sess.session \in Dispatched("PAUSE")
    /\ CASE sess.session = "play" ->
              /\ Respond("PAUSE", 200, [sess EXCEPT !.state = "prePlay"],
                         Result("nil", FALSE))
              /\ UNCHANGED <<procs, streams>>
         [] sess.session = "record" ->
              /\ streams' = Removed(streams, sess.path)
              /\ Respond("PAUSE", 200, [sess EXCEPT !.state = "preRecord"],
                         Result("nil", FALSE))
              /\ UNCHANGED procs
         [] OTHER ->
              /\ Respond("PAUSE", 200, sess, Result("nil", FALSE))
              /\ UNCHANGED <<procs, streams>>
    /\ UNCHANGED <<readers, publishers, calls>>
    /\ UNCHANGED apiVars
    /\ UNCHANGED <<connVars, objVars>>

\* in the record state s.path.publisherStop closes the stream; the library
\* stops the medias of the session when it has the answer
onPause ==
    /\ ~sess.closed
    /\ ~Stopping
    /\ sess.session \in Dispatched("PAUSE")
    /\ CASE sess.session = "play" ->
              /\ procs' = procs - Stopped(sess.onReadCmd)
              /\ Respond("PAUSE", 200,
                         [sess EXCEPT !.onReadCmd = CmdClose(@),
                                      !.state = "prePlay"],
                         Result("nil", FALSE))
              /\ UNCHANGED streams
         [] sess.session = "record" ->
              /\ streams' = Removed(streams, sess.path)
              /\ Respond("PAUSE", 200, [sess EXCEPT !.state = "preRecord"],
                         Result("nil", FALSE))
              /\ UNCHANGED procs
         [] OTHER ->
              /\ Respond("PAUSE", 200, sess, Result("nil", FALSE))
              /\ UNCHANGED <<procs, streams>>
    /\ UNCHANGED <<readers, publishers, calls>>
    /\ UNCHANGED apiVars
    /\ UNCHANGED <<connVars, objVars>>

\* the library, after a PAUSE answered 200, stops the medias of the session:
\* from then on no packet reaches the functions given to OnPacketRTP
mediaStop ==
    /\ ~sess.closed
    /\ Stopping
    /\ sess' = [sess EXCEPT !.receiving = FALSE]
    /\ UNCHANGED <<readers, publishers, streams, procs, calls, lastRes>>
    /\ UNCHANGED apiVars
    /\ UNCHANGED <<connVars, objVars>>

\* the function given to OnPacketRTP: writeFunc(pkt) writes the packet to the
\* stream it was made for, whatever the session's state
onPacketRTP ==
    /\ ~sess.closed
    /\ sess.receiving
    /\ sess.callbacks # <<>>
    /\ lastRes' = [NoRes EXCEPT !.method = "RTP", !.cause = "nil"]
    /\ UNCHANGED <<sess, readers, publishers, streams, procs, calls>>
    /\ UNCHANGED apiVars
    /\ UNCHANGED <<connVars, objVars>>

\* the library stops the medias of a session before it calls onClose
onClose ==
    /\ ~sess.closed
    /\ ~Stopping
    /\ procs' = IF sess.session = "play"
                THEN procs - Stopped(sess.onReadCmd) ELSE procs
    /\ CASE sess.session \in ReaderStates ->
              /\ calls' = Append(calls, <<"readerRemove", sess.path>>)
              /\ readers' = Removed(readers, sess.path)
              /\ UNCHANGED <<publishers, streams>>
         [] sess.session \in PublisherStates ->
              /\ calls' = Append(calls, <<"publisherRemove", sess.path>>)
              /\ publishers' = Removed(publishers, sess.path)
              /\ streams' = Removed(streams, sess.path)
              /\ UNCHANGED readers
         [] OTHER -> UNCHANGED <<calls, readers, publishers, streams>>
    /\ sess' = [sess EXCEPT !.onReadCmd = IF sess.session = "play"
                                          THEN "nil" ELSE @,
                            !.path = <<>>, !.stream = <<>>, !.closed = TRUE,
                            !.receiving = FALSE]
    /\ lastRes' = [NoRes EXCEPT !.method = "CLOSE", !.cause = "nil"]
    /\ UNCHANGED apiVars
    /\ UNCHANGED <<connVars, objVars>>

\* a session of a server with or without the TCP transport; the control API
\* is not running
APIIdle ==
    /\ conf = ZeroConf
    /\ mutex = 0
    /\ servers = AllServers
    /\ routes = Routes(servers)
    /\ listening = FALSE
    /\ reqs = [r \in Conns |-> IdleReq]
    /\ nreq = 0
    /\ pending = EmptyBag
    /\ committed = <<>>
    /\ parentPc = "idle"
    /\ parentConf = conf
    /\ added = NoAdd

InitRTSP ==
    /\ APIIdle
    /\ \E protocols \in {{"udp", "multicast", "tcp"}, {"udp", "multicast"}} :
        sess = newRTSPSession(protocols)
    /\ readers = {}
    /\ publishers = {}
    /\ streams = {}
    /\ procs = 0
    /\ calls = <<>>
    /\ lastRes = NoRes
    /\ ConnInit
    /\ ObjIdle

NextRTSP ==
    \/ onAnnounce
    \/ onSetup
    \/ onPlay
    \/ onRecord
    \/ onPause
    \/ mediaStop
    \/ onPacketRTP
    \/ onClose

SpecRTSP == InitRTSP /\ [][NextRTSP]_vars

(***************************************************************************)
(* One WebRTC connection: run, runInner and the goroutines runInner        *)
(* starts, the callbacks the peer connection calls, the client on the      *)
(* other side of the WebSocket, and the publisher that writes the stream.  *)
(***************************************************************************)
Running == process = "running"

\* innerCtx is a child of c.ctx
InnerDone == conn.ctxDone \/ conn.innerCancelled

VideoCodecs == {"av1", "vp9", "vp8", "h264"}

\* runInner returns err: its deferred calls run, last registered first, then
\* the goroutine of run sends err to runErr
Returning(cn, err) ==
    [cn EXCEPT !.inner = IF cn.defers = <<>> THEN "sendErr" ELSE "return",
               !.err = err]

Defer(cn, call) == [cn EXCEPT !.defers = Append(@, call)]

pathReaderAdd ==
    /\ Running
    /\ conn.inner = "readerAdd"
    /\ \E err \in BOOLEAN :
        IF err
        THEN /\ conn' = Returning(conn, "readerAdd")
             /\ UNCHANGED log
        ELSE /\ conn' = [Defer(conn, "path.readerRemove")
                            EXCEPT !.inner = "createTracks"]
             /\ log' = Append(log, "path.readerAdd")
    /\ UNCHANGED <<process, sig, peer, cand, ring, consumer, units>>
    /\ UNCHANGED <<apiVars, sessVars, objVars>>

\* createVideoTrack, createAudioTrack: video is the first of AV1, VP9, VP8,
\* H264 among the stream's formats, audio tells whether it has Opus, G722 or
\* G711; err is an error of webrtc.NewTrackLocalStaticRTP
createTracks ==
    /\ Running
    /\ conn.inner = "createTracks"
    /\ \E video \in VideoCodecs \cup {"none"}, audio, err \in BOOLEAN :
        conn' = IF err THEN Returning(conn, "track")
                ELSE IF video = "none" /\ ~audio
                THEN Returning(conn, "no supported codec")
                ELSE [conn EXCEPT !.video = video, !.audio = audio,
                                  !.inner = "writeICEServers"]
    /\ UNCHANGED <<process, sig, peer, cand, ring, consumer, units, log>>
    /\ UNCHANGED <<apiVars, sessVars, objVars>>

writeICEServers ==
    /\ Running
    /\ conn.inner = "writeICEServers"
    /\ \E err \in BOOLEAN :
        IF err
        THEN /\ conn' = Returning(conn, "write")
             /\ UNCHANGED sig
        ELSE /\ conn' = [conn EXCEPT !.inner = "readOffer"]
             /\ sig' = [sig EXCEPT !.iceServers = TRUE]
    /\ UNCHANGED <<process, peer, cand, ring, consumer, units, log>>
    /\ UNCHANGED <<apiVars, sessVars, objVars>>

\* readOffer without the test of offer.Type
readOfferAnyType ==
    /\ Running
    /\ conn.inner = "readOffer"
    /\ \E msg \in {"offer", "answer", "err"} :
        IF msg # "err"
        THEN /\ conn' = [conn EXCEPT !.inner = "newPeerConnection"]
             /\ sig' = [sig EXCEPT !.offer = @ \/ msg = "offer"]
        ELSE /\ conn' = Returning(conn, "read")
             /\ UNCHANGED sig
    /\ UNCHANGED <<process, peer, cand, ring, consumer, units, log>>
    /\ UNCHANGED <<apiVars, sessVars, objVars>>

\* c.wsconn.ReadJSON returns when the client has sent a message, of SDP type
\* offer or of another type, or when the connection fails
readOffer ==
    /\ Running
    /\ conn.inner = "readOffer"
    /\ \E msg \in {"offer", "answer", "err"} :
        IF msg = "offer"
        THEN /\ conn' = [conn EXCEPT !.inner = "newPeerConnection"]
             /\ sig' = [sig EXCEPT !.offer = TRUE]
        ELSE /\ conn' = Returning(conn, IF msg = "err" THEN "read"
                                        ELSE "not an offer")
             /\ UNCHANGED sig
    /\ UNCHANGED <<process, peer, cand, ring, consumer, units, log>>
    /\ UNCHANGED <<apiVars, sessVars, objVars>>

\* newPeerConnection, OnConnectionStateChange and the deferred pc.Close
newPeerConnection ==
    /\ Running
    /\ conn.inner = "newPeerConnection"
    /\ \E err \in BOOLEAN :
        IF err
        THEN /\ conn' = Returning(conn, "newPeerConnection")
             /\ UNCHANGED peer
        ELSE /\ conn' = [Defer(conn, "pc.Close") EXCEPT !.inner = "negotiate"]
             /\ peer' = [peer EXCEPT !.state = "new"]
    /\ UNCHANGED <<process, sig, cand, ring, consumer, units, log>>
    /\ UNCHANGED <<apiVars, sessVars, objVars>>

\* AddTrack, OnICECandidate, SetRemoteDescription, CreateAnswer,
\* SetLocalDescription
negotiate ==
    /\ Running
    /\ conn.inner = "negotiate"
    /\ \E err \in BOOLEAN :
        IF err
        THEN /\ conn' = Returning(conn, "negotiate")
             /\ UNCHANGED peer
        ELSE /\ conn' = [conn EXCEPT !.inner = "writeAnswer"]
             /\ peer' = [peer EXCEPT !.state = "connecting"]
    /\ UNCHANGED <<process, sig, cand, ring, consumer, units, log>>
    /\ UNCHANGED <<apiVars, sessVars, objVars>>

\* WriteJSON(&answer), then the goroutine that reads the client's candidates
\* and the handshake timer are started
writeAnswer ==
    /\ Running
    /\ conn.inner = "writeAnswer"
    /\ \E err \in BOOLEAN :
        IF err
        THEN /\ conn' = Returning(conn, "write")
             /\ UNCHANGED <<sig, cand>>
        ELSE /\ conn' = [Defer(conn, "t.Stop") EXCEPT !.inner = "loop",
                                                      !.timer = "running"]
             /\ sig' = [sig EXCEPT !.answer = TRUE]
             /\ cand' = "reading"
    /\ UNCHANGED <<process, peer, ring, consumer, units, log>>
    /\ UNCHANGED <<apiVars, sessVars, objVars>>

\* the goroutine of runInner that reads the client's candidates:
\* readCandidate returns a candidate or an error
readCandidate ==
    /\ Running
    /\ cand = "reading"
    /\ \E msg \in {"candidate", "err"} :
        cand' = IF msg = "err" THEN "hasErr" ELSE "hasCandidate"
    /\ UNCHANGED <<process, conn, sig, peer, ring, consumer, units, log>>
    /\ UNCHANGED <<apiVars, sessVars, objVars>>

\* its selects: the candidate is dropped once pcConnected is closed or ctx is
\* done, and it reads again; with an error in hand and ctx done, it returns
candidateUnsent ==
    /\ Running
    /\ \/ /\ cand = "hasCandidate"
          /\ peer.pcConnected \/ InnerDone
          /\ cand' = "reading"
       \/ /\ cand = "hasErr"
          /\ InnerDone
          /\ cand' = "exited"
    /\ UNCHANGED <<process, conn, sig, peer, ring, consumer, units, log>>
    /\ UNCHANGED <<apiVars, sessVars, objVars>>

\* time.NewTimer(webrtcHandshakeDeadline) fires
timerFires ==
    /\ Running
    /\ conn.timer = "running"
    /\ conn' = [conn EXCEPT !.timer = "expired"]
    /\ UNCHANGED <<process, sig, peer, cand, ring, consumer, units, log>>
    /\ UNCHANGED <<apiVars, sessVars, objVars>>

\* case candidate := <-localCandidate: the peer connection has gathered a
\* candidate and its OnICECandidate callback hands it over
loopLocalCandidate ==
    /\ Running
    /\ conn.inner = "loop"
    /\ peer.state # "closed"
    /\ \E err \in BOOLEAN :
        IF err
        THEN /\ conn' = Returning(conn, "write")
             /\ UNCHANGED sig
        ELSE /\ sig' = [sig EXCEPT !.localCandidate = TRUE]
             /\ UNCHANGED conn
    /\ UNCHANGED <<process, peer, cand, ring, consumer, units, log>>
    /\ UNCHANGED <<apiVars, sessVars, objVars>>

\* case candidate := <-remoteCandidate
loopRemoteCandidate ==
    /\ Running
    /\ conn.inner = "loop"
    /\ cand = "hasCandidate"
    /\ cand' = "reading"
    /\ \E err \in BOOLEAN :
        IF err
        THEN /\ conn' = Returning(conn, "AddICECandidate")
             /\ UNCHANGED sig
        ELSE /\ sig' = [sig EXCEPT !.remoteCandidate = TRUE]
             /\ UNCHANGED conn
    /\ UNCHANGED <<process, peer, ring, consumer, units, log>>
    /\ UNCHANGED <<apiVars, sessVars, objVars>>

\* case err := <-wsReadError
loopReadError ==
    /\ Running
    /\ conn.inner = "loop"
    /\ cand = "hasErr"
    /\ cand' = "exited"
    /\ conn' = Returning(conn, "read")
    /\ UNCHANGED <<process, sig, peer, ring, consumer, units, log>>
    /\ UNCHANGED <<apiVars, sessVars, objVars>>

\* case <-t.C
loopDeadline ==
    /\ Running
    /\ conn.inner = "loop"
    /\ conn.timer = "expired"
    /\ conn' = Returning(conn, "deadline exceeded")
    /\ UNCHANGED <<process, sig, peer, cand, ring, consumer, units, log>>
    /\ UNCHANGED <<apiVars, sessVars, objVars>>

\* case <-pcConnected: break outer
loopConnected ==
    /\ Running
    /\ conn.inner = "loop"
    /\ peer.pcConnected
    /\ conn' = [conn EXCEPT !.inner = "established"]
    /\ UNCHANGED <<process, sig, peer, cand, ring, consumer, units, log>>
    /\ UNCHANGED <<apiVars, sessVars, objVars>>

\* case <-ctx.Done()
loopDone ==
    /\ Running
    /\ conn.inner = "loop"
    /\ InnerDone
    /\ conn' = Returning(conn, "terminated")
    /\ UNCHANGED <<process, sig, peer, cand, ring, consumer, units, log>>
    /\ UNCHANGED <<apiVars, sessVars, objVars>>

\* the callback given to pc.OnConnectionStateChange, called with state: a
\* close of a channel that is closed already panics
StateChanged(state) ==
    IF peer.pcClosed
    THEN /\ peer' = [peer EXCEPT !.state = state]
         /\ UNCHANGED process
    ELSE LET ch == CASE state = "connected" -> "pcConnected"
                     [] state = "disconnected" -> "pcDisconnected"
                     [] state = "closed" -> "pcClosed"
         IN
         IF peer[ch]
         THEN /\ process' = "panic: close of closed channel"
              /\ peer' = [peer EXCEPT !.state = state]
         ELSE /\ peer' = [peer EXCEPT !.state = state, ![ch] = TRUE]
              /\ UNCHANGED process

\* the peer connection changes state: it connects once it has its local
\* description, may lose the peer and find it again, and is closed by
\* pc.Close
onConnectionStateChange ==
    /\ Running
    /\ \E state \in {"connected", "disconnected", "closed"} :
        /\ CASE state = "connected" ->
                  peer.state \in {"connecting", "disconnected"}
                  /\ ~peer.closeCalled
             [] state = "disconnected" ->
                  peer.state = "connected" /\ ~peer.closeCalled
             [] state = "closed" ->
                  peer.closeCalled /\ peer.state # "closed"
        /\ StateChanged(state)
    /\ UNCHANGED <<conn, sig, cand, ring, consumer, units, log>>
    /\ UNCHANGED <<apiVars, sessVars, objVars>>

\* established without `defer res.stream.readerRemove(c)`
establishedNoRemove ==
    /\ Running
    /\ conn.inner = "established"
    /\ conn' = [Defer(conn, "ringBuffer.Close")
                    EXCEPT !.inner = "select", !.registered = TRUE]
    /\ ring' = NewRing
    /\ consumer' = [at |-> "pull", unit |-> <<>>]
    /\ log' = Append(log, "stream.readerAdd")
    /\ UNCHANGED <<process, sig, peer, cand, units>>
    /\ UNCHANGED <<apiVars, sessVars, objVars>>

\* c.curPC = pc, ringbuffer.New and its deferred Close, stream.readerAdd of
\* every track and the deferred stream.readerRemove, the consumer goroutine
established ==
    /\ Running
    /\ conn.inner = "established"
    /\ conn' = [Defer(Defer(conn, "ringBuffer.Close"), "stream.readerRemove")
                    EXCEPT !.inner = "select", !.registered = TRUE]
    /\ ring' = NewRing
    /\ consumer' = [at |-> "pull", unit |-> <<>>]
    /\ log' = Append(log, "stream.readerAdd")
    /\ UNCHANGED <<process, sig, peer, cand, units>>
    /\ UNCHANGED <<apiVars, sessVars, objVars>>

\* case <-pcDisconnected
selectDisconnected ==
    /\ Running
    /\ conn.inner = "select"
    /\ peer.pcDisconnected
    /\ conn' = Returning(conn, "peer connection closed")
    /\ UNCHANGED <<process, sig, peer, cand, ring, consumer, units, log>>
    /\ UNCHANGED <<apiVars, sessVars, objVars>>

\* case err := <-wsReadError
selectReadError ==
    /\ Running
    /\ conn.inner = "select"
    /\ cand = "hasErr"
    /\ cand' = "exited"
    /\ conn' = Returning(conn, "websocket error")
    /\ UNCHANGED <<process, sig, peer, ring, consumer, units, log>>
    /\ UNCHANGED <<apiVars, sessVars, objVars>>

\* case err := <-writeError: the track callback that was sending returns
selectWriteError ==
    /\ Running
    /\ conn.inner = "select"
    /\ consumer.at = "writeError"
    /\ consumer' = [at |-> "pull", unit |-> <<>>]
    /\ conn' = Returning(conn, "write error")
    /\ UNCHANGED <<process, sig, peer, cand, ring, units, log>>
    /\ UNCHANGED <<apiVars, sessVars, objVars>>

\* case <-ctx.Done()
selectDone ==
    /\ Running
    /\ conn.inner = "select"
    /\ InnerDone
    /\ conn' = Returning(conn, "terminated")
    /\ UNCHANGED <<process, sig, peer, cand, ring, consumer, units, log>>
    /\ UNCHANGED <<apiVars, sessVars, objVars>>

\* the deferred calls of runInner, the last registered first; the deferred
\* pc.Close is followed by <-pcClosed
Popped(cn) ==
    LET rest == SubSeq(cn.defers, 1, Len(cn.defers) - 1) IN
    [cn EXCEPT !.defers = rest,
               !.inner = IF rest = <<>> THEN "sendErr" ELSE "return"]

runDefer ==
    /\ Running
    /\ conn.inner = "return"
    /\ LET call == conn.defers[Len(conn.defers)] IN
       CASE call = "stream.readerRemove" ->
              /\ conn' = [Popped(conn) EXCEPT !.registered = FALSE]
              /\ log' = Append(log, call)
              /\ UNCHANGED <<peer, ring>>
         [] call = "ringBuffer.Close" ->
              /\ conn' = Popped(conn)
              /\ ring' = [ring EXCEPT !.closed = TRUE]
              /\ UNCHANGED <<peer, log>>
         [] call = "t.Stop" ->
              /\ conn' = [Popped(conn) EXCEPT !.timer = "stopped"]
              /\ UNCHANGED <<peer, ring, log>>
         [] call = "pc.Close" ->
              /\ conn' = [conn EXCEPT
                            !.defers[Len(conn.defers)] = "<-pcClosed"]
              /\ peer' = [peer EXCEPT !.closeCalled = TRUE]
              /\ UNCHANGED <<ring, log>>
         [] call = "<-pcClosed" ->
              /\ peer.pcClosed
              /\ conn' = Popped(conn)
              /\ UNCHANGED <<peer, ring, log>>
         [] call = "path.readerRemove" ->
              /\ conn' = Popped(conn)
              /\ log' = Append(log, call)
              /\ UNCHANGED <<peer, ring>>
    /\ UNCHANGED <<process, sig, cand, consumer, units>>
    /\ UNCHANGED <<apiVars, sessVars, objVars>>

\* run: case err = <-runErr, or <-runErr after case <-c.ctx.Done()
runReceive ==
    /\ Running
    /\ conn.run \in {"select", "waitInner"}
    /\ conn.inner = "sendErr"
    /\ conn' = [conn EXCEPT !.inner = "returned", !.run = "ctxCancel",
                            !.innerCancelled = TRUE,
                            !.err = IF conn.run = "waitInner"
                                    THEN "terminated" ELSE @]
    /\ UNCHANGED <<process, sig, peer, cand, ring, consumer, units, log>>
    /\ UNCHANGED <<apiVars, sessVars, objVars>>

\* run: case <-c.ctx.Done(): innerCtxCancel()
runCtxDone ==
    /\ Running
    /\ conn.run = "select"
    /\ conn.ctxDone
    /\ conn' = [conn EXCEPT !.run = "waitInner", !.innerCancelled = TRUE]
    /\ UNCHANGED <<process, sig, peer, cand, ring, consumer, units, log>>
    /\ UNCHANGED <<apiVars, sessVars, objVars>>

\* run: c.ctxCancel(), c.parent.connClose(c)
runConnClose ==
    /\ Running
    /\ conn.run = "ctxCancel"
    /\ conn' = [conn EXCEPT !.run = "deferred", !.ctxDone = TRUE]
    /\ log' = Append(log, "parent.connClose")
    /\ UNCHANGED <<process, sig, peer, cand, ring, consumer, units>>
    /\ UNCHANGED <<apiVars, sessVars, objVars>>

\* run: the deferred c.wg.Done() and close(c.closed), after which wait returns
runDone ==
    /\ Running
    /\ conn.run = "deferred"
    /\ conn' = [conn EXCEPT !.run = "done"]
    /\ log' = log \o <<"wg.Done", "close(closed)">>
    /\ UNCHANGED <<process, sig, peer, cand, ring, consumer, units>>
    /\ UNCHANGED <<apiVars, sessVars, objVars>>

\* close, or a cancellation of the parent context
webRTCConnClose ==
    /\ Running
    /\ ~conn.ctxDone
    /\ conn' = [conn EXCEPT !.ctxDone = TRUE]
    /\ UNCHANGED <<process, sig, peer, cand, ring, consumer, units, log>>
    /\ UNCHANGED <<apiVars, sessVars, objVars>>

\* the tracks of the connection: at most one video and one audio track
Tracks(cn) ==
    (IF cn.video = "none" THEN {} ELSE {cn.video})
        \cup (IF cn.audio THEN {"audio"} ELSE {})

IsFull(rg) == \A n \in DOMAIN rg.slots : rg.slots[n] # NoItem

\* ringBuffer.Push: the slot after writeIndex takes the item, whatever it
\* holds
Push(rg, item) ==
    LET w == (rg.writeIndex + 1) % ReadBufferCount IN
    [rg EXCEPT !.slots[w] = item, !.writeIndex = w]

\* a callback that waits for a free slot
writeUnitBlocking ==
    /\ Running
    /\ conn.registered
    /\ Len(units.pushed) < MaxUnits
    /\ ~IsFull(ring)
    /\ \E track \in Tracks(conn) :
        LET unit == <<Len(units.pushed) + 1, track>> IN
        /\ ring' = Push(ring, unit)
        /\ units' = [units EXCEPT !.pushed = Append(@, unit),
                                  !.everFull = @ \/ IsFull(ring')]
    /\ UNCHANGED <<process, conn, sig, peer, cand, consumer, log>>
    /\ UNCHANGED <<apiVars, sessVars, objVars>>

\* the publisher writes a unit of one of the tracks' formats: the stream
\* calls the callback runInner registered for it, which pushes a closure
\* (the track's cb applied to the unit) and returns
writeUnit ==
    /\ Running
    /\ conn.registered
    /\ Len(units.pushed) < MaxUnits
    /\ \E track \in Tracks(conn) :
        LET unit == <<Len(units.pushed) + 1, track>> IN
        /\ ring' = Push(ring, unit)
        /\ units' = [units EXCEPT !.pushed = Append(@, unit),
                                  !.everFull = @ \/ IsFull(ring')]
    /\ UNCHANGED <<process, conn, sig, peer, cand, consumer, log>>
    /\ UNCHANGED <<apiVars, sessVars, objVars>>

\* a consumer whose Pull does not move readIndex
consumerPullNoAdvance ==
    /\ Running
    /\ consumer.at = "pull"
    /\ LET item == ring.slots[ring.readIndex] IN
       IF item # NoItem
       THEN /\ ring' = [ring EXCEPT !.slots[ring.readIndex] = NoItem]
            /\ consumer' = [at |-> "cb", unit |-> item]
            /\ units' = [units EXCEPT !.invoked = Append(@, item)]
       ELSE /\ ring.closed
            /\ ring' = [ring EXCEPT !.closed = FALSE]
            /\ consumer' = [at |-> "exited", unit |-> <<>>]
            /\ UNCHANGED units
    /\ UNCHANGED <<process, conn, sig, peer, cand, log>>
    /\ UNCHANGED <<apiVars, sessVars, objVars>>

\* the consumer goroutine: ringBuffer.Pull takes the item at readIndex and
\* the closure is called; with no item there and the ring closed, Pull
\* returns false (and clears closed) and the goroutine returns
consumerPull ==
    /\ Running
    /\ consumer.at = "pull"
    /\ LET item == ring.slots[ring.readIndex] IN
       IF item # NoItem
       THEN /\ ring' = [ring EXCEPT
                            !.slots[ring.readIndex] = NoItem,
                            !.readIndex = (@ + 1) % ReadBufferCount]
            /\ consumer' = [at |-> "cb", unit |-> item]
            /\ units' = [units EXCEPT !.invoked = Append(@, item)]
       ELSE /\ ring.closed
            /\ ring' = [ring EXCEPT !.closed = FALSE]
            /\ consumer' = [at |-> "exited", unit |-> <<>>]
            /\ UNCHANGED units
    /\ UNCHANGED <<process, conn, sig, peer, cand, log>>
    /\ UNCHANGED <<apiVars, sessVars, objVars>>

\* how a track's cb can end: it returns (the unit is empty, the encoder
\* fails, or the packets are written); the AV1 cb panics when its encoder
\* fails; the H264 cb sends to writeError when PTS goes back
Outcomes(track) ==
    CASE track = "av1" -> {"return", "panic"}
      [] track = "h264" -> {"return", "writeError"}
      [] OTHER -> {"return"}

trackCallback ==
    /\ Running
    /\ consumer.at = "cb"
    /\ \E outcome \in Outcomes(consumer.unit[2]) :
        CASE outcome = "return" ->
               /\ consumer' = [at |-> "pull", unit |-> <<>>]
               /\ UNCHANGED process
          [] outcome = "writeError" ->
               /\ consumer' = [consumer EXCEPT !.at = "writeError"]
               /\ UNCHANGED process
          [] outcome = "panic" ->
               /\ process' = "panic: encoder error"
               /\ UNCHANGED consumer
    /\ UNCHANGED <<conn, sig, peer, cand, ring, units, log>>
    /\ UNCHANGED <<apiVars, sessVars, objVars>>

\* the H264 cb waiting in `select`: case <-ctx.Done()
callbackDone ==
    /\ Running
    /\ consumer.at = "writeError"
    /\ InnerDone
    /\ consumer' = [at |-> "pull", unit |-> <<>>]
    /\ UNCHANGED <<process, conn, sig, peer, cand, ring, units, log>>
    /\ UNCHANGED <<apiVars, sessVars, objVars>>

InitWebRTC ==
    /\ APIIdle
    /\ SessionIdle
    /\ ConnInit
    /\ ObjIdle

NextWebRTC ==
    \/ pathReaderAdd
    \/ createTracks
    \/ writeICEServers
    \/ readOffer
    \/ newPeerConnection
    \/ negotiate
    \/ writeAnswer
    \/ readCandidate
    \/ candidateUnsent
    \/ timerFires
    \/ loopLocalCandidate
    \/ loopRemoteCandidate
    \/ loopReadError
    \/ loopDeadline
    \/ loopConnected
    \/ loopDone
    \/ onConnectionStateChange
    \/ established
    \/ selectDisconnected
    \/ selectReadError
    \/ selectWriteError
    \/ selectDone
    \/ runDefer
    \/ runReceive
    \/ runCtxDone
    \/ runConnClose
    \/ runDone
    \/ webRTCConnClose
    \/ writeUnit
    \/ consumerPull
    \/ trackCallback
    \/ callbackDone

SpecWebRTC == InitWebRTC /\ [][NextWebRTC]_vars

\* The steps a goroutine takes by itself once it can: Go schedules every
\* runnable goroutine, a write on the WebSocket ends within its deadline, a
\* started timer fires, and pc.Close makes the peer connection report closed.
\* Nothing makes the client send a message or a candidate, the peer connect,
\* the publisher write, or anybody call close.  A select whose case stays
\* ready takes it in the end (Go picks among the ready cases at random), so
\* the candidates that keep coming do not keep the loop from its other cases.
LoopExits == loopReadError \/ loopDeadline \/ loopConnected \/ loopDone

InnerSteps ==
    \/ pathReaderAdd
    \/ createTracks
    \/ writeICEServers
    \/ newPeerConnection
    \/ negotiate
    \/ writeAnswer
    \/ LoopExits
    \/ established
    \/ selectDisconnected
    \/ selectReadError
    \/ selectWriteError
    \/ selectDone
    \/ runDefer

RunSteps == runReceive \/ runCtxDone \/ runConnClose \/ runDone

ConsumerSteps == consumerPull \/ trackCallback \/ callbackDone

PeerClosed == peer.closeCalled /\ onConnectionStateChange

FairSpecWebRTC ==
    /\ SpecWebRTC
    /\ WF_vars(InnerSteps)
    /\ WF_vars(RunSteps)
    /\ WF_vars(ConsumerSteps)
    /\ WF_vars(candidateUnsent)
    /\ WF_vars(timerFires)
    /\ WF_vars(PeerClosed)

(***************************************************************************)
(* Configuration objects (api.go): a.conf as a pointer                     *)
(***************************************************************************)
\* *id, the conf.Conf value of the object at address id in the heaps h and ph
Deref(h, ph, id) ==
    [h[id] EXCEPT !.Paths = [p \in DOMAIN h[id].Paths |-> ph[h[id].Paths[p]]]]

\* a Clone that copies the struct and shares the PathConf objects
ConfCloneShallow(id, n) == [conf |-> heap[id], paths |-> EmptyDoc]

\* Conf.Clone, the copy being allocated at address n: a deep copy, every
\* PathConf is copied to an object of the copy's own, at address <<n, name>>
ConfClone(id, n) ==
    [conf  |-> [heap[id] EXCEPT
                    !.Paths = [p \in DOMAIN heap[id].Paths |-> <<n, p>>]],
     paths |-> [x \in {<<n, p>> : p \in DOMAIN heap[id].Paths} |->
                    pheap[heap[id].Paths[x[2]]]]]

\* a.mutex.Lock(); defer a.mutex.Unlock(); newConf := a.conf.Clone()
LockAndClone(ep, name, in) ==
    LET n == Len(heap) + 1
        cl == ConfClone(confPtr, n)
    IN
    /\ confMutex = "free"
    /\ Len(heap) <= MaxRequests
    /\ confMutex' = "held"
    /\ heap' = Append(heap, cl.conf)
    /\ pheap' = cl.paths @@ pheap
    /\ handler' = [pc |-> "cloned", ep |-> ep, name |-> name, in |-> in,
                   newConf |-> n]
    /\ UNCHANGED <<confPtr, gets, published, handed>>

\* onConfigSet up to the clone: a body that does not decode is refused
\* before the mutex is taken; the bodies set logLevel or nothing
setLock ==
    /\ handler.pc = "idle"
    /\ LET bodies == {b \in PartialConfBodies : DOMAIN b.doc \subseteq {"logLevel"}}
       IN
       \/ /\ {body \in bodies : loadConfData(body).err} # {}
          /\ UNCHANGED objVars
       \/ \E body \in bodies :
            /\ ~loadConfData(body).err
            /\ LockAndClone("POST /v1/config/set", <<>>, loadConfData(body).in)
    /\ UNCHANGED <<apiVars, sessVars, connVars>>

\* fillStruct(newConf, in)
setFill ==
    /\ handler.pc = "cloned"
    /\ handler.ep = "POST /v1/config/set"
    /\ heap' = [heap EXCEPT ![handler.newConf] = fillStruct(@, handler.in)]
    /\ handler' = [handler EXCEPT !.pc = "modified"]
    /\ UNCHANGED <<pheap, confPtr, confMutex, gets, published, handed>>
    /\ UNCHANGED <<apiVars, sessVars, connVars>>

\* onConfigPathsAdd up to the clone
pathsAddLock ==
    /\ handler.pc = "idle"
    /\ \/ /\ {x \in NameParams \X PathBodies :
                    \/ Len(x[1]) < 2
                    \/ x[1][1] # "/"
                    \/ loadConfPathData(x[2]).err} # {}
          /\ UNCHANGED objVars
       \/ \E param \in NameParams, body \in PathBodies :
            /\ ~(Len(param) < 2 \/ param[1] # "/")
            /\ ~loadConfPathData(body).err
            /\ LockAndClone("POST /v1/config/paths/add/*name", Tail(param),
                            loadConfPathData(body).in)
    /\ UNCHANGED <<apiVars, sessVars, connVars>>

\* newConfPath := &conf.PathConf{}; fillStruct(newConfPath, in);
\* newConf.Paths[name] = newConfPath; when the name exists, the request
\* is refused and the deferred Unlock runs
pathsAddFill ==
    /\ handler.pc = "cloned"
    /\ handler.ep = "POST /v1/config/paths/add/*name"
    /\ LET n == handler.newConf
           name == handler.name
       IN
       IF name \in DOMAIN heap[n].Paths
       THEN /\ handler' = NoHandler
            /\ confMutex' = "free"
            /\ UNCHANGED <<heap, pheap>>
       ELSE /\ pheap' = MapPut(pheap, <<n, name>>,
                               fillStruct(ZeroPathConf, handler.in))
            /\ heap' = [heap EXCEPT ![n].Paths = MapPut(@, name, <<n, name>>)]
            /\ handler' = [handler EXCEPT !.pc = "modified"]
            /\ UNCHANGED confMutex
    /\ UNCHANGED <<confPtr, gets, published, handed>>
    /\ UNCHANGED <<apiVars, sessVars, connVars>>

\* onConfigPathsEdit up to the clone
pathsEditLock ==
    /\ handler.pc = "idle"
    /\ \/ /\ {x \in NameParams \X PathBodies :
                    \/ Len(x[1]) < 2
                    \/ x[1][1] # "/"
                    \/ loadConfPathData(x[2]).err} # {}
          /\ UNCHANGED objVars
       \/ \E param \in NameParams, body \in PathBodies :
            /\ ~(Len(param) < 2 \/ param[1] # "/")
            /\ ~loadConfPathData(body).err
            /\ LockAndClone("POST /v1/config/paths/edit/*name", Tail(param),
                            loadConfPathData(body).in)
    /\ UNCHANGED <<apiVars, sessVars, connVars>>

\* newConfPath, ok := newConf.Paths[name]; fillStruct(newConfPath, in): the
\* PathConf the clone points to is modified in place; when the name is
\* missing, the request is refused and the deferred Unlock runs
pathsEditFill ==
    /\ handler.pc = "cloned"
    /\ handler.ep = "POST /v1/config/paths/edit/*name"
    /\ LET n == handler.newConf
           name == handler.name
       IN
       IF name \notin DOMAIN heap[n].Paths
       THEN /\ handler' = NoHandler
            /\ confMutex' = "free"
            /\ UNCHANGED pheap
       ELSE /\ pheap' = [pheap EXCEPT
                           ![heap[n].Paths[name]] = fillStruct(@, handler.in)]
            /\ handler' = [handler EXCEPT !.pc = "modified"]
            /\ UNCHANGED confMutex
    /\ UNCHANGED <<heap, confPtr, gets, published, handed>>
    /\ UNCHANGED <<apiVars, sessVars, connVars>>

\* onConfigPathsDelete up to the clone
pathsDeleteLock ==
    /\ handler.pc = "idle"
    /\ \/ /\ {param \in NameParams : Len(param) < 2 \/ param[1] # "/"} # {}
          /\ UNCHANGED objVars
       \/ \E param \in NameParams :
            /\ ~(Len(param) < 2 \/ param[1] # "/")
            /\ LockAndClone("POST /v1/config/paths/remove/*name", Tail(param),
                            EmptyDoc)
    /\ UNCHANGED <<apiVars, sessVars, connVars>>

\* delete(newConf.Paths, name); when the name is missing, the request
\* is refused and the deferred Unlock runs
pathsDeleteFill ==
    /\ handler.pc = "cloned"
    /\ handler.ep = "POST /v1/config/paths/remove/*name"
    /\ LET n == handler.newConf
           name == handler.name
       IN
       IF name \notin DOMAIN heap[n].Paths
       THEN /\ handler' = NoHandler
            /\ confMutex' = "free"
            /\ UNCHANGED heap
       ELSE /\ heap' = [heap EXCEPT ![n].Paths = MapDelete(@, name)]
            /\ handler' = [handler EXCEPT !.pc = "modified"]
            /\ UNCHANGED confMutex
    /\ UNCHANGED <<pheap, confPtr, gets, published, handed>>
    /\ UNCHANGED <<apiVars, sessVars, connVars>>

\* err = newConf.Check(); a.conf = newConf; go a.parent.apiConfigSet(newConf);
\* the deferred Unlock
checkAndAssign ==
    /\ handler.pc = "modified"
    /\ confMutex' = "free"
    /\ IF ~Check(Deref(heap, pheap, handler.newConf))
       THEN /\ handler' = NoHandler
            /\ UNCHANGED <<confPtr, published, handed>>
       ELSE /\ confPtr' = handler.newConf
            /\ published' = published \cup {handler.newConf}
            /\ handed' = handed \cup {handler.newConf}
            /\ handler' = NoHandler
    /\ UNCHANGED <<heap, pheap, gets>>
    /\ UNCHANGED <<apiVars, sessVars, connVars>>

\* onConfigGet: a.mutex.Lock(); c := a.conf; a.mutex.Unlock()
getLoad(g) ==
    /\ gets[g].pc \in {"idle", "done"}
    /\ confMutex = "free"
    /\ gets' = [gets EXCEPT ![g] = [pc |-> "loaded", c |-> confPtr,
                                    seen |-> Deref(heap, pheap, confPtr),
                                    resp |-> EmptyDoc]]
    /\ UNCHANGED <<heap, pheap, confPtr, confMutex, handler, published, handed>>
    /\ UNCHANGED <<apiVars, sessVars, connVars>>

\* ctx.JSON(http.StatusOK, c), the mutex released: the encoder reads the
\* global settings of *c, then its paths, and the document is written
getJSON(g) ==
    /\ \/ /\ gets[g].pc = "loaded"
          /\ gets' = [gets EXCEPT
                        ![g].pc = "encoding",
                        ![g].resp = [k \in GlobalKeys |->
                                        Deref(heap, pheap, gets[g].c)
                                            [FieldOfJson(ConfType, k)]]]
       \/ /\ gets[g].pc = "encoding"
          /\ LET paths == Deref(heap, pheap, gets[g].c).Paths IN
             gets' = [gets EXCEPT
                        ![g].pc = "done",
                        ![g].resp = [k \in JsonKeys(ConfType) |->
                                        IF k = "paths"
                                        THEN [p \in DOMAIN paths |->
                                                PathToJSON(paths[p])]
                                        ELSE gets[g].resp[k]]]
    /\ UNCHANGED <<heap, pheap, confPtr, confMutex, handler, published, handed>>
    /\ UNCHANGED <<apiVars, sessVars, connVars>>

\* confReload, called by the core with a pointer the API handed to
\* apiConfigSet, or with a configuration the core has loaded and validated
confReloadPointer ==
    /\ confMutex = "free"
    /\ \/ /\ \E id \in handed :
                /\ confPtr' = id
                /\ published' = published \cup {id}
          /\ UNCHANGED <<heap, pheap>>
       \/ /\ Len(heap) <= MaxRequests
          /\ \E c \in {v \in ValidConfs : /\ v.LogLevel = 0
                                          /\ v.ReadTimeout = 1
                                          /\ DOMAIN v.Paths \subseteq {<<"a">>}} :
                LET n == Len(heap) + 1 IN
                /\ heap' = Append(heap, [c EXCEPT
                              !.Paths = [p \in DOMAIN c.Paths |-> <<n, p>>]])
                /\ pheap' = [x \in {<<n, p>> : p \in DOMAIN c.Paths} |->
                                c.Paths[x[2]]] @@ pheap
                /\ confPtr' = n
                /\ published' = published \cup {n}
    /\ UNCHANGED <<confMutex, handler, gets, handed>>
    /\ UNCHANGED <<apiVars, sessVars, connVars>>

InitObjects ==
    /\ APIIdle
    /\ SessionIdle
    /\ ConnInit
    /\ ObjIdle

NextObjects ==
    \/ setLock
    \/ setFill
    \/ pathsAddLock
    \/ pathsAddFill
    \/ pathsEditLock
    \/ pathsEditFill
    \/ pathsDeleteLock
    \/ pathsDeleteFill
    \/ checkAndAssign
    \/ \E g \in Conns : getLoad(g)
    \/ \E g \in Conns : getJSON(g)
    \/ confReloadPointer

SpecObjects == InitObjects /\ [][NextObjects]_vars

(***************************************************************************)
(* Properties                                                              *)
(***************************************************************************)
MutatingRoutes == ConfigRoutes \ {"GET /v1/config/get"}

\* this step runs the handler of connection r
Handled(r) == reqs[r].pc = "idle" /\ reqs'[r].pc = "responded"

\* a *name parameter of the form "/" followed by at least one character
WellFormed(param) == Len(param) >= 2 /\ Head(param) = "/"

\* a well-formed *name parameter without its leading "/"
KeyOf(param) == SubSeq(param, 2, Len(param))

\* C1: when newConf.Check() fails in the handler of config/set, paths/add,
\* paths/edit or paths/remove, the request is answered 400, api.conf (and thus
\* the document /v1/config/get returns) is what it was before the request, and
\* no apiConfigSet goroutine is started.
C1_CheckFailureLeavesConf ==
    [][\A r \in Conns :
        (Handled(r) /\ reqs'[r].ep \in MutatingRoutes /\ reqs'[r].check = "err")
            => /\ reqs'[r].status = 400
               /\ conf' = conf
               /\ ToJSON(conf') = ToJSON(conf)
               /\ pending' = pending]_vars

C1_Witness ==
    \E r \in Conns :
        /\ reqs[r].pc = "responded"
        /\ reqs[r].ep \in MutatingRoutes
        /\ reqs[r].check = "err"
        /\ reqs[r].status = 400

\* C2: paths/add of a name that is a key of api.conf.Paths is answered 400,
\* api.conf is unchanged and no apiConfigSet goroutine is started.
C2_AddExistingRejected ==
    [][\A r \in Conns :
        (/\ Handled(r)
         /\ reqs'[r].ep = "POST /v1/config/paths/add/*name"
         /\ WellFormed(reqs'[r].name)
         /\ KeyOf(reqs'[r].name) \in DOMAIN conf.Paths)
            => /\ reqs'[r].status = 400
               /\ conf' = conf
               /\ pending' = pending]_vars

C2_Witness ==
    \E r \in Conns :
        /\ reqs[r].pc = "responded"
        /\ reqs[r].ep = "POST /v1/config/paths/add/*name"
        /\ reqs[r].body.ok
        /\ WellFormed(reqs[r].name)
        /\ mutex = r
        /\ KeyOf(reqs[r].name) \in DOMAIN conf.Paths
        /\ reqs[r].status = 400

\* C3: paths/edit or paths/remove of a name that is not a key of
\* api.conf.Paths is answered 400, api.conf is unchanged and no apiConfigSet
\* goroutine is started.
C3_MissingPathRejected ==
    [][\A r \in Conns :
        (/\ Handled(r)
         /\ reqs'[r].ep \in {"POST /v1/config/paths/edit/*name",
                             "POST /v1/config/paths/remove/*name"}
         /\ WellFormed(reqs'[r].name)
         /\ KeyOf(reqs'[r].name) \notin DOMAIN conf.Paths)
            => /\ reqs'[r].status = 400
               /\ conf' = conf
               /\ pending' = pending]_vars

C3_Witness ==
    \E r \in Conns :
        /\ reqs[r].pc = "responded"
        /\ reqs[r].ep = "POST /v1/config/paths/remove/*name"
        /\ WellFormed(reqs[r].name)
        /\ mutex = r
        /\ KeyOf(reqs[r].name) \notin DOMAIN conf.Paths
        /\ reqs[r].status = 400

\* C4: a step in which a mutating config request is answered 200 starts
\* exactly one apiConfigSet goroutine, with the configuration the step made
\* api.conf; a request answered 400 starts none, and no other step starts one.
C4_OneReloadPerCommit ==
    [][/\ \A r \in Conns :
            (Handled(r) /\ reqs'[r].ep \in MutatingRoutes)
                => /\ reqs'[r].status \in {200, 400}
                   /\ reqs'[r].status = 200
                        => pending' = pending (+) SetToBag({conf'})
                   /\ reqs'[r].status = 400 => pending' = pending
       /\ (\A r \in Conns :
            ~(Handled(r) /\ reqs'[r].ep \in MutatingRoutes /\ reqs'[r].status = 200))
                => BagCardinality(pending') <= BagCardinality(pending)]_vars

C4_Witness ==
    \E r \in Conns :
        /\ reqs[r].pc = "responded"
        /\ reqs[r].ep \in MutatingRoutes
        /\ reqs[r].status = 200
        /\ mutex = r
        /\ BagIn(conf, pending)
        /\ BagCardinality(pending) >= 2

\* C5: a config/set answered 200 gives every global field present in the body
\* the value the body supplies, and leaves every global field absent from the
\* body, and the paths map, as they were.
C5_SetChangesOnlyPresentFields ==
    [][\A r \in Conns :
        (Handled(r) /\ reqs'[r].ep = "POST /v1/config/set" /\ reqs'[r].status = 200)
            => LET doc == reqs'[r].body.doc IN
               /\ conf'.LogLevel = IF "logLevel" \in DOMAIN doc
                                   THEN doc["logLevel"] ELSE conf.LogLevel
               /\ conf'.ReadTimeout = IF "readTimeout" \in DOMAIN doc
                                      THEN doc["readTimeout"] ELSE conf.ReadTimeout
               /\ conf'.Paths = conf.Paths]_vars

C5_Witness ==
    \E r \in Conns :
        /\ reqs[r].pc = "responded"
        /\ reqs[r].ep = "POST /v1/config/set"
        /\ reqs[r].status = 200
        /\ mutex = r
        /\ DOMAIN reqs[r].body.doc = {"logLevel"}
        /\ conf.LogLevel = 1
        /\ conf.ReadTimeout = 1
        /\ conf.Paths # EmptyDoc

\* C6: a handler that has written its response can return at once, whatever
\* the goroutine running parent.apiConfigSet is doing, and the core never
\* blocks for good: api.confReload waits only for a mutex whose holder can
\* return, and the Shutdown in api.close only for handlers that can return.
C6_ReloadNeverBlocksHandler ==
    /\ \A r \in Conns : reqs[r].pc = "responded" => ENABLED Return(r)
    /\ (pending # EmptyBag /\ parentPc = "idle")
            => ENABLED (\E c \in BagToSet(pending) : apiConfigSet(c))
    /\ parentPc = "reload"
            => (ENABLED confReload \/ \E r \in Conns : mutex = r /\ ENABLED Return(r))
    /\ parentPc = "close" => ENABLED close
    /\ parentPc = "shutdown"
            => \/ ENABLED newAPI
               \/ \E r \in Conns : reqs[r].pc = "responded" /\ ENABLED Return(r)

C6_Witness ==
    \E r \in Conns :
        /\ mutex = r
        /\ reqs[r].pc = "responded"
        /\ reqs[r].status = 200
        /\ pending = EmptyBag
        /\ parentPc = "reload"
        /\ parentConf = conf
        /\ ~ENABLED confReload

PathRoutes ==
    {"POST /v1/config/paths/add/*name", "POST /v1/config/paths/edit/*name",
     "POST /v1/config/paths/remove/*name"}

\* C9: paths/add, paths/edit and paths/remove act on the map key that is the
\* name parameter without its leading "/": an add creates that key, an edit
\* keeps it, a remove deletes it, and every other entry stays as it was; a
\* name parameter that does not begin with "/" or has nothing after it is
\* answered 400 with api.conf unchanged.
C9_KeyIsNameWithoutSlash ==
    [][\A r \in Conns :
        (Handled(r) /\ reqs'[r].ep \in PathRoutes)
            => LET param == reqs'[r].name
                   ep == reqs'[r].ep
               IN
               IF ~WellFormed(param)
               THEN /\ reqs'[r].status = 400
                    /\ conf' = conf
                    /\ pending' = pending
               ELSE reqs'[r].status = 200
                    => LET key == KeyOf(param) IN
                       /\ \A k \in (DOMAIN conf.Paths \cup DOMAIN conf'.Paths) \ {key} :
                            /\ k \in DOMAIN conf.Paths
                            /\ k \in DOMAIN conf'.Paths
                            /\ conf'.Paths[k] = conf.Paths[k]
                       /\ ep = "POST /v1/config/paths/add/*name"
                            => key \notin DOMAIN conf.Paths /\ key \in DOMAIN conf'.Paths
                       /\ ep = "POST /v1/config/paths/edit/*name"
                            => key \in DOMAIN conf.Paths /\ key \in DOMAIN conf'.Paths
                       /\ ep = "POST /v1/config/paths/remove/*name"
                            => key \in DOMAIN conf.Paths /\ key \notin DOMAIN conf'.Paths]_vars

C9_Witness ==
    /\ added.name = <<"a">>
    /\ ~added.removed
    /\ <<"a">> \in DOMAIN conf.Paths
    /\ \E r \in Conns :
        /\ reqs[r].pc = "responded"
        /\ reqs[r].ep \in PathRoutes
        /\ reqs[r].name = <<"/">>
        /\ reqs[r].status = 400

\* C10: a request line for which no route is registered is answered 404; the
\* list and kick routes of a protocol whose server argument of newAPI was nil
\* (a nil pointer or a nil interface) are not registered.
C10_UnregisteredIs404 ==
    /\ \A p \in Protocols :
        servers[p] \in {NilPointer, NilInterface}
            => routes \cap ProtocolRoutes(p) = {}
    /\ \A r \in Conns :
        (reqs[r].pc = "responded" /\ reqs[r].ep \notin routes)
            => reqs[r].status = 404

C10_Witness ==
    /\ servers["rtsp"] = NilPointer
    /\ servers["hls"] = LiveServer
    /\ \E r \in Conns :
        /\ reqs[r].pc = "responded"
        /\ reqs[r].ep = "POST /v1/rtspsessions/kick/:id"
        /\ reqs[r].status = 404

\* C32: a kick request for which the server's kick operation returned an
\* error is not answered with status 200.
C32_KickErrorNot200 ==
    \A r \in Conns :
        (/\ reqs[r].pc = "responded"
         /\ reqs[r].ep \in KickRoutes
         /\ reqs[r].ep \in routes
         /\ reqs[r].err)
            => reqs[r].status # 200

\* C31: an object that has been a.conf is never modified afterwards; a.conf
\* changes in one step, to the validated clone of the handler that holds the
\* mutex or, with no handler holding it, to the configuration confReload is
\* given; the document a /v1/config/get writes is the complete encoding of the
\* configuration a.conf pointed to when the get read it, whatever requests ran
\* while it was encoded, and that configuration passes validation.
C31_CurrentConfNeverModified ==
    /\ [][\A id \in published :
              Deref(heap', pheap', id) = Deref(heap, pheap, id)]_vars
    /\ [][confPtr' # confPtr =>
              /\ Check(Deref(heap', pheap', confPtr'))
              /\ confMutex' = "free"
              /\ handler.pc # "idle" =>
                    (handler.pc = "modified" /\ confPtr' = handler.newConf)]_vars
    /\ [](Check(Deref(heap, pheap, confPtr)) /\ confPtr \in published)
    /\ [](\A g \in Conns :
            gets[g].pc = "done" =>
                /\ gets[g].c \in published
                /\ gets[g].resp = ToJSON(gets[g].seen)
                /\ Check(gets[g].seen))

\* a get has written the configuration it read although, while it was
\* encoding, a request replaced a.conf and another one has modified its clone
C31_Witness ==
    \E g \in Conns :
        /\ gets[g].pc = "done"
        /\ gets[g].c # confPtr
        /\ gets[g].seen # Deref(heap, pheap, confPtr)
        /\ gets[g].resp = ToJSON(Deref(heap, pheap, gets[g].c))
        /\ handler.pc = "modified"
        /\ handler.ep = "POST /v1/config/paths/edit/*name"
        /\ Deref(heap, pheap, handler.newConf) # Deref(heap, pheap, confPtr)

\* C28: the core is handed the configurations in the order in which the
\* handlers committed them, and when every request is answered, every
\* goroutine has run and the core is idle, the configuration it was handed
\* last is a.conf, which /v1/config/get returns.
C28_DeliveredInCommitOrder ==
    /\ [][Len(committed') < Len(committed)
              => parentConf' = Head(committed)]_vars
    /\ []((/\ pending = EmptyBag
           /\ parentPc = "idle"
           /\ \A r \in Conns : reqs[r].pc = "idle") => parentConf = conf)

(***************************************************************************)
(* Properties of the RTSP session                                          *)
(***************************************************************************)
\* <<method, state before, state after>> of the changes of s.state
StateChanges ==
    {<<"SETUP", "initial", "prePlay">>, <<"PLAY", "prePlay", "play">>,
     <<"PAUSE", "play", "prePlay">>, <<"ANNOUNCE", "initial", "preRecord">>,
     <<"RECORD", "preRecord", "record">>, <<"PAUSE", "record", "preRecord">>}

\* C11: s.state starts at initial; it changes only by SETUP initial ->
\* prePlay, PLAY prePlay -> play, PAUSE play -> prePlay, ANNOUNCE initial ->
\* preRecord, RECORD preRecord -> record, PAUSE record -> preRecord, each
\* answered 200 (a SETUP in prePlay leaves prePlay); after a handler that
\* answered 200 it equals the library's state; it never passes between the
\* reader states and the publisher states.
C11_StateMirrorsLibrary ==
    /\ sess.state = "initial"
    /\ [][/\ sess'.state # sess.state =>
                /\ lastRes'.status = 200
                /\ <<lastRes'.method, sess.state, sess'.state>> \in StateChanges
          /\ sess.state \in ReaderStates => sess'.state \in ReaderStates
          /\ sess.state \in PublisherStates => sess'.state \in PublisherStates
         ]_vars
    /\ [](lastRes.status = 200 => sess.state = sess.session)

\* C11 witness: a publisher that announced, recorded and paused
C11_Witness ==
    /\ lastRes.method = "PAUSE"
    /\ lastRes.status = 200
    /\ sess.state = "preRecord"
    /\ sess.stream # <<>>

\* C12: the step that closes a session asks readerRemove once, of the path
\* s.path points to and that holds the session as a reader, when the library's
\* state is prePlay or play; publisherRemove once, of the path that holds it
\* as publisher, when it is preRecord or record; nothing when it is initial;
\* and once the session is closed none of its runOnRead processes runs.
C12_SymmetricTeardown ==
    /\ [][(~sess.closed /\ sess'.closed) =>
            /\ calls = <<>>
            /\ sess.session \in ReaderStates =>
                  /\ calls' = <<<<"readerRemove", sess.path>>>>
                  /\ \E name \in readers : sess.path = <<name>>
            /\ sess.session \in PublisherStates =>
                  /\ calls' = <<<<"publisherRemove", sess.path>>>>
                  /\ \E name \in publishers : sess.path = <<name>>
            /\ sess.session = "initial" => calls' = <<>>
         ]_vars
    /\ [](sess.closed => procs = 0)

\* C12 witness: a session closed while playing, its reader removed
C12_Witness ==
    /\ sess.closed
    /\ sess.session = "play"
    /\ calls = <<<<"readerRemove", <<<<"a">>>>>>>>
    /\ procs = 0

C22_AdmissionErrorStatus ==
    /\ (lastRes.method = "SETUP" /\ lastRes.cause \in AddErrors) =>
          /\ lastRes.cause = "pathErrAuth"
                => lastRes.status = StatusUnauthorized
          /\ lastRes.cause = "pathErrNoOnePublishing" => lastRes.status = 404
          /\ lastRes.cause = "other" => lastRes.status = 400
    /\ (lastRes.method = "ANNOUNCE" /\ lastRes.cause \in AddErrors) =>
          /\ lastRes.cause = "pathErrAuth"
                => lastRes.status = StatusUnauthorized
          /\ lastRes.cause # "pathErrAuth" => lastRes.status = 400

\* C22 witness: a SETUP of a path no one publishes to
C22_Witness ==
    /\ lastRes.method = "SETUP"
    /\ lastRes.cause = "pathErrNoOnePublishing"
    /\ lastRes.status = 404
    /\ lastRes.asked

\* C23: a SETUP with the TCP transport, when TCP is not among s.protocols, is
\* answered 400 and pathManager.readerAdd is not called.
C23_DisabledTCPIsBadRequest ==
    (lastRes.method = "SETUP" /\ lastRes.cause = "transport") =>
        (lastRes.status = 400 /\ ~lastRes.asked)

\* C24: an ANNOUNCE, SETUP or RECORD answered with an error status leaves
\* s.state, s.path, s.stream and the packet callbacks as they were; a request
\* path that is empty or does not begin with '/' is answered 400 and the path
\* manager is not called.
C24_FailedRequestLeavesSession ==
    /\ [][(/\ lastRes'.method \in {"ANNOUNCE", "SETUP", "RECORD"}
           /\ lastRes'.status # 200) =>
              /\ sess'.state = sess.state
              /\ sess'.path = sess.path
              /\ sess'.stream = sess.stream
              /\ sess'.callbacks = sess.callbacks
              /\ sess'.receiving = sess.receiving
         ]_vars
    /\ [](lastRes.cause = "invalid path" =>
              (lastRes.status = 400 /\ ~lastRes.asked))

\* C24 witness: a reader that is set up and whose next SETUP was refused
C24_Witness ==
    /\ lastRes.method = "SETUP"
    /\ lastRes.status = 404
    /\ sess.state = "prePlay"
    /\ sess.path # <<>>

\* C25: a packet callback writes only to a stream that publisherStart has
\* created for the session and that neither publisherStop nor
\* publisherRemove has closed since.
C25_WritesOnlyToOpenStream ==
    lastRes.method = "RTP" => \E name \in streams : sess.callbacks = <<name>>

\* C26: a runOnRead process is started by the step that takes the session
\* from prePlay to play when RunOnRead is set, and by no other; at most one
\* runs at any time, and only while the session is in the play state.
C26_RunOnReadLifetime ==
    /\ [][/\ procs' > procs =>
                /\ procs' = procs + 1
                /\ sess.session = "prePlay"
                /\ sess'.session = "play"
                /\ lastRes'.runOnRead
          /\ (sess.session = "prePlay" /\ sess'.session = "play") =>
                procs' = IF lastRes'.runOnRead THEN procs + 1 ELSE procs
         ]_vars
    /\ [](procs <= 1)
    /\ [](procs = 1 => (~sess.closed /\ sess.session = "play"))

\* C26 witness: a reader paused, its runOnRead command closed
C26_Witness ==
    /\ lastRes.method = "PAUSE"
    /\ sess.session = "prePlay"
    /\ sess.onReadCmd = "closed"
    /\ procs = 0

\* C30: before onClose, s.path is set exactly when the session has left the
\* initial state, and s.stream is set in the states prePlay, play and record.
C30_PathSetOutsideInitial ==
    ~sess.closed =>
        /\ (sess.path # <<>>) <=> (sess.session # "initial")
        /\ (sess.path # <<>>) <=> (sess.state # "initial")
        /\ sess.session \in {"prePlay", "play", "record"} => sess.stream # <<>>

\* C30 witness: a publisher that records
C30_Witness ==
    /\ ~sess.closed
    /\ sess.session = "record"
    /\ sess.stream # <<>>
    /\ sess.path = sess.stream

(***************************************************************************)
(* Properties of the WebRTC connection                                     *)
(***************************************************************************)
Count(call) == Cardinality({n \in 1..Len(log) : log[n] = call})

IndexOf(call) == CHOOSE n \in 1..Len(log) : log[n] = call

\* C13: when runInner has run its deferred calls, path.readerRemove was
\* called once if pathManager.readerAdd succeeded, and then, if the callbacks
\* were registered on the stream, stream.readerRemove was called once, before
\* it; if readerAdd failed, neither was called.
C13_ReaderRemovedOnce ==
    conn.inner \in {"sendErr", "returned"} =>
        IF Count("path.readerAdd") = 0
        THEN Count("path.readerRemove") = 0 /\ Count("stream.readerRemove") = 0
        ELSE /\ Count("path.readerRemove") = 1
             /\ Count("stream.readerRemove") = Count("stream.readerAdd")
             /\ Count("stream.readerAdd") = 1 =>
                    IndexOf("stream.readerRemove") < IndexOf("path.readerRemove")

\* C13 witness: runInner ended by a write error of a track callback, the
\* stream's reader removed before the path's
C13_Witness ==
    /\ conn.inner = "returned"
    /\ conn.err = "write error"
    /\ Count("stream.readerRemove") = 1
    /\ Count("path.readerRemove") = 1

\* the positions of runInner between the ICE servers it sends and the peer
\* connection being connected
HandshakeStages ==
    {"readOffer", "newPeerConnection", "negotiate", "writeAnswer", "loop"}

\* C15: a connection whose handshake is not complete, in whatever stage it
\* is (waiting for the offer, after the answer, exchanging candidates), does
\* not stay there: once the deadline has passed runInner has left the
\* handshake (time always passes: the timer, once started, fires).
C15_DeadlineEndsHandshake ==
    (Running /\ conn.inner \in HandshakeStages)
        ~> (~Running \/ conn.inner \notin HandshakeStages)

\* C17: once c.ctx is cancelled the connection terminates: run ends, having
\* called parent.connClose once, after runInner returned, then wg.Done once,
\* then closed c.closed.
C17_CloseTerminates ==
    /\ (Running /\ conn.ctxDone) ~> (~Running \/ conn.run = "done")
    /\ [](conn.run = "done" =>
            /\ conn.inner = "returned"
            /\ SelectSeq(log, LAMBDA e : e \in {"parent.connClose", "wg.Done",
                                                "close(closed)"})
                 = <<"parent.connClose", "wg.Done", "close(closed)">>)
    /\ []("parent.connClose" \in {log[n] : n \in 1..Len(log)} =>
            conn.inner = "returned")

\* C16: the answer is written only after a message of SDP type offer was
\* read; a first message of another type ends runInner with no answer
\* written; no local candidate is written and no remote candidate is added
\* before the answer was written.
C16_SignalingOrder ==
    /\ sig.answer => sig.offer
    /\ conn.err = "not an offer" => ~sig.answer /\ ~sig.offer
    /\ sig.localCandidate \/ sig.remoteCandidate => sig.answer

\* C16 witness: candidates went both ways after the answer
C16_Witness ==
    /\ sig.offer
    /\ sig.answer
    /\ sig.localCandidate
    /\ sig.remoteCandidate

\* C18: a failure inside a track callback, whatever the codec, ends at most
\* its own connection: it never ends the process, in which every other
\* connection and the path manager run.
C18_FailureClosesOnlyItsConn == process # "panic: encoder error"

\* C19: while the callbacks are registered on the stream, the publisher's
\* next unit is pushed at once, wherever the consumer goroutine is and
\* whatever the ring holds.
C19_PublisherNeverBlocked ==
    (Running /\ conn.registered /\ Len(units.pushed) < MaxUnits)
        => ENABLED writeUnit

\* C19 witness: two units pushed while the consumer waits in the H264 cb to
\* report a write error
C19_Witness ==
    /\ consumer.at = "writeError"
    /\ units.invoked = <<<<1, "h264">>>>
    /\ IsFull(ring)
    /\ conn.registered

\* the items the ring holds, in the order Pull will return them
Queued(rg) ==
    LET slot(n) == rg.slots[(rg.readIndex + n) % ReadBufferCount]
        len == Cardinality({n \in 0..(ReadBufferCount - 1) :
                                \A m \in 0..n : slot(m) # NoItem})
    IN [n \in 1..len |-> slot(n - 1)]

C21_LastUnitsInOrder ==
    (units.invoked = <<>> /\ Len(units.pushed) > ReadBufferCount) =>
        Queued(ring) = SubSeq(units.pushed,
                              Len(units.pushed) - ReadBufferCount + 1,
                              Len(units.pushed))

\* runInner has run its deferred stream.readerRemove and ringBuffer.Close
TornDown ==
    /\ Count("stream.readerRemove") = 1
    /\ \A n \in 1..Len(conn.defers) : conn.defers[n] # "ringBuffer.Close"

\* C27: once runInner has called stream.readerRemove and closed the ring, no
\* track callback is invoked any more, and none is running when runInner has
\* returned.
C27_NoCallbackAfterTeardown ==
    /\ [][TornDown => units'.invoked = units.invoked]_vars
    /\ [](conn.inner = "returned" => consumer.at \notin {"cb", "writeError"})

\* C29: whatever the peer connection reports, no close of pcConnected,
\* pcDisconnected or pcClosed finds the channel closed already.
C29_ChannelsClosedOnce == process # "panic: close of closed channel"

====
